---- MODULE Spec2Model ----
(***************************************************************************)
(* Streaming-completion layer of src-tauri/src/commands.rs:                *)
(*   - append_chunk_with_overlap   (overlap deduplicator)                   *)
(*   - LiveEmitGate                (live emission gate)                     *)
(*   - call_openai_unbounded / call_anthropic_unbounded (continuation)      *)
(*   - chat_generate_stream / chat_cancel_stream / clear_stream_task        *)
(*     over AppState.ai_stream_tasks (session / cancellation registry)      *)
(* Text is a sequence of characters (one-character strings); a character   *)
(* is the unit of Rust's chars(), so no operator can split one.            *)
(***************************************************************************)
EXTENDS Integers, Sequences, FiniteSets, TLC

VARIABLES
  \* append_chunk_with_overlap, one call
  d_pc, d_old, d_chunk, d_full, d_ret,
  \* LiveEmitGate fed piecewise
  g_pc, g_input, g_rest, g_gate, g_last,
  \* one call of call_openai_unbounded / call_anthropic_unbounded: its locals
  \* (ctl), what the provider has seen and answered so far (c_hist), and the
  \* locals of the same call made without a live sink, as
  \* ai_assistance_generate makes it, and given the same answers (c_twin)
  ctl, c_hist, c_twin,
  \* the head of a controller call: the credential lookup, the configured
  \* key and what the call does with them before its first request
  cred,
  \* AppState.ai_stream_tasks (r_registry), the spawned stream tasks
  \* (r_tasks), the command running on the command thread (r_call), the
  \* notifications the window has received, by emitting task (r_notes; the
  \* done of a chat_cancel_stream call is filed under the task whose handle
  \* the call took, or under NoHandle when it took none), the number of
  \* chat_cancel_stream calls so far (r_ncancel)
  r_registry, r_tasks, r_call, r_notes, r_ncancel,
  \* the frame decoder over one streamed response body (sse), and
  \* sse_take_line called on one buffer until it returns None (take)
  sse, take,
  \* the tail of one chat_generate_stream task, from the live tokens of
  \* run_react to emit_stream_done (replay), and one call of
  \* parse_modifications (pm)
  replay, pm

dvars == <<d_pc, d_old, d_chunk, d_full, d_ret>>
gvars == <<g_pc, g_input, g_rest, g_gate, g_last>>
cvars == <<ctl, c_hist, c_twin, cred>>
rvars == <<r_registry, r_tasks, r_call, r_notes, r_ncancel>>
svars == <<sse, take>>
pvars == <<replay, pm>>
vars == <<dvars, gvars, cvars, rvars, svars, pvars>>

(***************************************************************************)
(* Bounds of the model.                                                    *)
(***************************************************************************)
\* longest transcript and chunk given to append_chunk_with_overlap
MaxLen == 4
\* the lookback window; the source fixes 4096 (commands.rs:1637), scaled
\* down here so that transcripts longer than the window occur
MAX_OVERLAP_CHARS == 3
\* the continuation ceiling; the source fixes 64 (commands.rs:1707, 1926),
\* scaled down here so that the last round is reached with full histories
MAX_CONTINUATIONS == 2
\* most whitespace characters in front of a gate input; with two of them a
\* buffered input can be longer than the marker
MaxLead == 2
\* longest text after the marker part of a gate input
MaxTail == 1
\* stream tasks spawned over one run of the registry
MaxTasks == 2
\* chat_cancel_stream calls over one run of the registry
MaxCancels == 1
\* longest credential, stored or configured
MaxKey == 2

(***************************************************************************)
(* Text helpers.                                                           *)
(***************************************************************************)
Min(a, b) == IF a <= b THEN a ELSE b

SetMax(S) == CHOOSE x \in S : \A y \in S : y <= x

SetMin(S) == CHOOSE x \in S : \A y \in S : x <= y

\* all sequences over S of length 0..n
SeqsUpTo(S, n) == UNION {[1..k -> S] : k \in 0..n}

\* chars().take(n)
FirstChars(s, n) == SubSeq(s, 1, Min(n, Len(s)))

\* chars().rev().take(n) reversed back
LastChars(s, n) == SubSeq(s, Len(s) - Min(n, Len(s)) + 1, Len(s))

\* chars().skip(n)
SkipChars(s, n) == SubSeq(s, n + 1, Len(s))

\* str::starts_with
starts_with(s, p) == Len(p) <= Len(s) /\ SubSeq(s, 1, Len(p)) = p

ends_with(s, p) == Len(p) <= Len(s) /\ SubSeq(s, Len(s) - Len(p) + 1, Len(s)) = p

RECURSIVE Concat(_)
Concat(ss) == IF ss = <<>> THEN <<>> ELSE Head(ss) \o Concat(Tail(ss))

\* char::to_ascii_uppercase on the characters the model uses
to_ascii_uppercase(ch) ==
  CASE ch = "a" -> "A" [] ch = "c" -> "C" [] ch = "t" -> "T"
    [] ch = "i" -> "I" [] ch = "o" -> "O" [] ch = "n" -> "N"
    [] ch = "x" -> "X" [] OTHER -> ch

is_whitespace(ch) == ch \in {" ", "\n", "\r"}

\* str::trim_start
trim_start(s) ==
  LET keep == {i \in 1..Len(s) : ~is_whitespace(s[i])}
  IN IF keep = {} THEN <<>> ELSE SubSeq(s, SetMin(keep), Len(s))

\* str::trim_end
RECURSIVE trim_end(_)
trim_end(s) ==
  IF s # <<>> /\ is_whitespace(s[Len(s)]) THEN trim_end(SubSeq(s, 1, Len(s) - 1))
  ELSE s

\* str::trim
trim(s) == trim_end(trim_start(s))

(***************************************************************************)
(* append_chunk_with_overlap (commands.rs:1636-1671).                      *)
(***************************************************************************)
\* a plausible slip: the search runs shortest-to-longest
RECURSIVE FindOverlapUp(_, _, _, _)
FindOverlapUp(tail, head, len, max_overlap) ==
  IF len > max_overlap THEN 0
  ELSE IF SubSeq(tail, Len(tail) - len + 1, Len(tail)) = SubSeq(head, 1, len) THEN len
  ELSE FindOverlapUp(tail, head, len + 1, max_overlap)

FindOverlapShortest(tail, head, len) == FindOverlapUp(tail, head, 1, len)

\* for len in (1..=max_overlap).rev(): first match stops
RECURSIVE FindOverlap(_, _, _)
FindOverlap(tail, head, len) ==
  IF len = 0 THEN 0
  ELSE IF SubSeq(tail, Len(tail) - len + 1, Len(tail)) = SubSeq(head, 1, len) THEN len
  ELSE FindOverlap(tail, head, len - 1)

\* a plausible slip: on an overlap the transcript restarts from the chunk
AppendChunkRestart(full_text, chunk) ==
  IF chunk = <<>> THEN [overlap |-> 0, unique |-> <<>>, full_text |-> full_text]
  ELSE IF full_text = <<>> THEN [overlap |-> 0, unique |-> chunk, full_text |-> chunk]
  ELSE
    LET tail == LastChars(full_text, MAX_OVERLAP_CHARS)
        head == FirstChars(chunk, MAX_OVERLAP_CHARS)
        overlap == FindOverlap(tail, head, Min(Len(tail), Len(head)))
    IN IF overlap = 0
       THEN [overlap |-> 0, unique |-> chunk, full_text |-> full_text \o chunk]
       ELSE [overlap |-> overlap, unique |-> SkipChars(chunk, overlap),
             full_text |-> chunk]

\* returns (overlap, unique suffix) and the transcript after the call
append_chunk_with_overlap(full_text, chunk) ==
  IF chunk = <<>> THEN [overlap |-> 0, unique |-> <<>>, full_text |-> full_text]
  ELSE IF full_text = <<>> THEN [overlap |-> 0, unique |-> chunk, full_text |-> chunk]
  ELSE
    LET tail == LastChars(full_text, MAX_OVERLAP_CHARS)
        head == FirstChars(chunk, MAX_OVERLAP_CHARS)
        max_overlap == Min(Len(tail), Len(head))
        overlap == FindOverlap(tail, head, max_overlap)
    IN IF overlap = 0
       THEN [overlap |-> 0, unique |-> chunk, full_text |-> full_text \o chunk]
       ELSE LET suffix == SkipChars(chunk, overlap)
            IN [overlap |-> overlap, unique |-> suffix, full_text |-> full_text \o suffix]

(***************************************************************************)
(* LiveEmitGate (commands.rs:1325-1403).  A gate is [mode, probe]; the     *)
(* live sink is the sequence of tokens emitted so far.                     *)
(***************************************************************************)
ACTION_MARKER == <<"A", "C", "T", "I", "O", "N", ":">>

\* trimmed.chars().take(7)
HEAD_TAKE == 7

action_prefix_state(text) ==
  LET trimmed == trim_start(text)
  IN IF trimmed = <<>> THEN [possible |-> FALSE, full |-> FALSE]
     ELSE
       LET taken == FirstChars(trimmed, HEAD_TAKE)
           head == [i \in 1..Len(taken) |-> to_ascii_uppercase(taken[i])]
       IN [possible |-> starts_with(ACTION_MARKER, head), full |-> head = ACTION_MARKER]

\* LiveStreamSession::emit_token: an empty token is not emitted
emit_token(out, token) == IF token = <<>> THEN out ELSE Append(out, token)

\* session is Option<&LiveStreamSession>: live = FALSE models None
SessionEmit(live, out, token) == IF live THEN emit_token(out, token) ELSE out

LiveEmitGate_new == [mode |-> "Unknown", probe |-> <<>>, out |-> <<>>]

\* a plausible slip: the flush forwards only the new text
PushFlushNewOnly(gate, live, text) ==
  IF text = <<>> THEN gate
  ELSE CASE gate.mode = "Emit" -> [gate EXCEPT !.out = SessionEmit(live, gate.out, text)]
         [] gate.mode = "Suppress" -> gate
         [] OTHER ->
            LET probe == gate.probe \o text
                st == action_prefix_state(probe)
            IN IF st.full THEN [gate EXCEPT !.mode = "Suppress", !.probe = <<>>]
               ELSE IF st.possible THEN [gate EXCEPT !.probe = probe]
               ELSE [mode |-> "Emit", probe |-> <<>>,
                     out |-> SessionEmit(live, gate.out, text)]

\* a plausible slip: a full marker match switches to Suppress only for the
\* text of that call, later text is forwarded
PushSuppressOnce(gate, live, text) ==
  IF text = <<>> THEN gate
  ELSE CASE gate.mode = "Emit" -> [gate EXCEPT !.out = SessionEmit(live, gate.out, text)]
         [] gate.mode = "Suppress" -> [gate EXCEPT !.out = SessionEmit(live, gate.out, text)]
         [] OTHER ->
            LET probe == gate.probe \o text
                st == action_prefix_state(probe)
            IN IF st.full THEN [gate EXCEPT !.mode = "Suppress", !.probe = <<>>]
               ELSE IF st.possible THEN [gate EXCEPT !.probe = probe]
               ELSE [mode |-> "Emit", probe |-> <<>>,
                     out |-> SessionEmit(live, gate.out, probe)]

\* LiveEmitGate::push
push(gate, live, text) ==
  IF text = <<>> THEN gate
  ELSE CASE gate.mode = "Emit" -> [gate EXCEPT !.out = SessionEmit(live, gate.out, text)]
         [] gate.mode = "Suppress" -> gate
         [] OTHER ->
            LET probe == gate.probe \o text
                st == action_prefix_state(probe)
            IN IF st.full THEN [gate EXCEPT !.mode = "Suppress", !.probe = <<>>]
               ELSE IF st.possible THEN [gate EXCEPT !.probe = probe]
               ELSE [mode |-> "Emit", probe |-> <<>>,
                     out |-> SessionEmit(live, gate.out, probe)]

\* a plausible slip: finalize drops the probe without flushing it
FinalizeDrop(gate, live) == [gate EXCEPT !.probe = <<>>]

\* a plausible slip: the probe is flushed but not cleared
FinalizeKeepProbe(gate, live) ==
  IF gate.probe = <<>> THEN gate
  ELSE LET st == action_prefix_state(gate.probe)
       IN IF gate.mode # "Suppress" /\ ~st.full
          THEN [gate EXCEPT !.out = SessionEmit(live, gate.out, gate.probe)]
          ELSE [gate EXCEPT !.probe = <<>>]

\* LiveEmitGate::finalize
finalize(gate, live) ==
  IF gate.probe = <<>> THEN gate
  ELSE LET st == action_prefix_state(gate.probe)
       IN IF gate.mode # "Suppress" /\ ~st.full
          THEN [gate EXCEPT !.out = SessionEmit(live, gate.out, gate.probe), !.probe = <<>>]
          ELSE [gate EXCEPT !.probe = <<>>]

(***************************************************************************)
(* Specification SpecDedup: one call of append_chunk_with_overlap on every *)
(* transcript and chunk over two characters, up to MaxLen characters each. *)
(***************************************************************************)
DedupChars == {"a", "b"}

\* the provider-side history of a controller call: the attempts of the
\* current round, those of the round before, and whether every answer so far
\* was a successful, length-capped round
HistInit == [attempts |-> <<>>, last_round |-> <<>>, clean |-> TRUE]

CredIdle == cred = [pc |-> "idle"]

CallIdle == ctl = [pc |-> "idle"] /\ c_hist = HistInit /\ c_twin = [pc |-> "idle"]

CtlIdle == CallIdle /\ CredIdle

\* the stream identities of a run, the spawned tasks in spawn order, and the
\* absent JoinHandle (Option::None).  Every registry operation touches only
\* the key it is given (insert 1628, remove 1267 and 1281), so the slots of
\* distinct identities never interact and one identity's slot is modelled.
StreamIds == {"s1"}

TaskIds == 1..MaxTasks

NoHandle == 0

NoTask == [pc |-> "unspawned", sid |-> "", aborted |-> FALSE, emitted |-> FALSE]

NoCall == [op |-> "none", sid |-> "", task |-> NoHandle, had |-> NoHandle]

\* AppState::default(): an empty ai_stream_tasks map, nothing spawned
RegInit ==
  /\ r_registry = [s \in StreamIds |-> NoHandle]
  /\ r_tasks = [t \in TaskIds |-> NoTask]
  /\ r_call = NoCall
  /\ r_notes = [t \in TaskIds \cup {NoHandle} |-> <<>>]
  /\ r_ncancel = 0

DecoderIdle == sse = [pc |-> "idle"] /\ take = [pc |-> "idle"]

PureIdle == replay = [pc |-> "idle"] /\ pm = [pc |-> "idle"]

DedupIdle ==
  /\ d_pc = "idle" /\ d_old = <<>> /\ d_chunk = <<>> /\ d_full = <<>>
  /\ d_ret = [overlap |-> 0, unique |-> <<>>]

GateIdle ==
  /\ g_pc = "idle" /\ g_input = <<>> /\ g_rest = <<>>
  /\ g_gate = LiveEmitGate_new
  /\ g_last = [op |-> "none", text |-> <<>>, before |-> LiveEmitGate_new, n |-> 0]

InitDedup ==
  /\ d_pc = "call"
  /\ d_old \in SeqsUpTo(DedupChars, MaxLen)
  /\ d_chunk \in SeqsUpTo(DedupChars, MaxLen)
  /\ d_full = d_old
  /\ d_ret = [overlap |-> 0, unique |-> <<>>]
  /\ GateIdle
  /\ CtlIdle
  /\ RegInit
  /\ DecoderIdle
  /\ PureIdle

AppendChunk ==
  /\ d_pc = "call"
  /\ LET r == append_chunk_with_overlap(d_full, d_chunk)
     IN /\ d_full' = r.full_text
        /\ d_ret' = [overlap |-> r.overlap, unique |-> r.unique]
  /\ d_pc' = "done"
  /\ UNCHANGED <<d_old, d_chunk, gvars, cvars, rvars, svars, pvars>>

NextDedup == AppendChunk

SpecDedup == InitDedup /\ [][NextDedup]_vars

\* C1: for a non-empty transcript and a non-empty chunk, the reported overlap
\* is the largest k in 1..min(window, |transcript|, |chunk|) for which the last
\* k characters of the transcript equal the first k of the chunk (0 when there
\* is none); the transcript afterwards is the old one followed by chunk[k:],
\* and the returned unique suffix is chunk[k:].
C1_LargestOverlap ==
  (d_pc = "done" /\ d_old # <<>> /\ d_chunk # <<>>) =>
    LET K == {k \in 1..Min(MAX_OVERLAP_CHARS, Min(Len(d_old), Len(d_chunk))) :
                LastChars(d_old, k) = FirstChars(d_chunk, k)}
        kmax == IF K = {} THEN 0 ELSE SetMax(K)
    IN /\ d_ret.overlap = kmax
       /\ d_full = d_old \o SkipChars(d_chunk, kmax)
       /\ d_ret.unique = SkipChars(d_chunk, kmax)

\* a call on a transcript longer than the window, where a shorter overlap is
\* valid too, the window-long one was reported and text was appended
C1_Witness ==
  /\ d_pc = "done"
  /\ Len(d_old) > MAX_OVERLAP_CHARS
  /\ d_ret.overlap = MAX_OVERLAP_CHARS
  /\ LastChars(d_old, 1) = FirstChars(d_chunk, 1)
  /\ d_ret.unique # <<>>

(***************************************************************************)
(* Specification SpecGate: a fresh gate with a live session is fed one     *)
(* input text split into push calls in every possible way, then finalized. *)
(***************************************************************************)
Spaces(n) == [i \in 1..n |-> " "]

lower(s) ==
  [i \in 1..Len(s) |->
     CASE s[i] = "A" -> "a" [] s[i] = "C" -> "c" [] s[i] = "T" -> "t"
       [] s[i] = "I" -> "i" [] s[i] = "O" -> "o" [] s[i] = "N" -> "n"
       [] OTHER -> s[i]]

\* the marker part of an input: every prefix of the marker, the marker in
\* lower and mixed case, and near misses
GateBodies ==
  {SubSeq(ACTION_MARKER, 1, k) : k \in 0..Len(ACTION_MARKER)}
    \cup {lower(ACTION_MARKER), <<"A", "c", "t", "i", "o", "n", ":">>,
          <<"a", "c">>, <<"A", "C", "x">>, <<"x">>}

GateTails == SeqsUpTo({"x", " "}, MaxTail)

GateInputs ==
  {Spaces(n) \o b \o t : n \in 0..MaxLead, b \in GateBodies, t \in GateTails}

InitGate ==
  /\ g_pc = "pushing"
  /\ g_input \in GateInputs
  /\ g_rest = g_input
  /\ g_gate = LiveEmitGate_new
  /\ g_last = [op |-> "none", text |-> <<>>, before |-> LiveEmitGate_new, n |-> 0]
  /\ DedupIdle
  /\ CtlIdle
  /\ RegInit
  /\ DecoderIdle
  /\ PureIdle

\* one push call with the next k characters of the input (k = 0: the empty push)
GatePush ==
  /\ g_pc = "pushing"
  /\ \E k \in 0..Len(g_rest) :
       LET text == SubSeq(g_rest, 1, k)
       IN /\ g_gate' = push(g_gate, TRUE, text)
          /\ g_rest' = SkipChars(g_rest, k)
          /\ g_last' = IF text = <<>> THEN g_last
                        ELSE [op |-> "push", text |-> text, before |-> g_gate,
                              n |-> g_last.n + 1]
  /\ UNCHANGED <<g_pc, g_input, dvars, cvars, rvars, svars, pvars>>

\* the stream has ended: finalize
GateFinalize ==
  /\ g_pc = "pushing"
  /\ g_rest = <<>>
  /\ g_gate' = finalize(g_gate, TRUE)
  /\ g_last' = [op |-> "finalize", text |-> <<>>, before |-> g_gate, n |-> g_last.n]
  /\ g_pc' = "finalized"
  /\ UNCHANGED <<g_input, g_rest, dvars, cvars, rvars, svars, pvars>>

NextGate == GatePush \/ GateFinalize

SpecGate == InitGate /\ [][NextGate]_vars

upper(s) == [i \in 1..Len(s) |-> to_ascii_uppercase(s[i])]

Contains(s, p) == \E i \in 1..(Len(s) - Len(p) + 1) : SubSeq(s, i, i + Len(p) - 1) = p

StartsWithMarker(s) == starts_with(upper(s), ACTION_MARKER)

\* the probe a push call produced in state Unknown
PushedProbe == g_last.before.probe \o g_last.text

UnknownPush == g_last.op = "push" /\ g_last.text # <<>> /\ g_last.before.mode = "Unknown"

\* C2: when the pushed text begins with the marker, compared without regard
\* to case, no token is emitted, by no push and not by finalize, however the
\* text is split into push calls.
C2_MarkerNeverEmitted == StartsWithMarker(g_input) => g_gate.out = <<>>

\* the marker in lower case followed by more text, fed in at least three
\* pieces and finalized
C2_Witness ==
  /\ g_pc = "finalized"
  /\ StartsWithMarker(g_input)
  /\ g_input # upper(g_input)
  /\ Len(g_input) > Len(ACTION_MARKER)
  /\ g_last.n >= 3
  /\ g_gate.mode = "Suppress"

\* C3 as stated: a push in state Unknown that leaves the probe neither equal
\* to the marker nor a proper prefix of it emits the whole probe as one token,
\* switches to Emit and empties the probe.
C3_AsStated ==
  (/\ UnknownPush
   /\ upper(PushedProbe) # ACTION_MARKER
   /\ ~starts_with(ACTION_MARKER, upper(PushedProbe)))
    => /\ g_gate.out = <<PushedProbe>>
       /\ g_gate.mode = "Emit"
       /\ g_gate.probe = <<>>

\* C3 (amended): a push in state Unknown that leaves the probe, with leading
\* whitespace trimmed and upper-cased, neither beginning with the marker nor
\* a non-empty proper prefix of it, emits the whole untrimmed probe as one
\* token, switches to Emit and empties the probe.
C3_FlushWholeProbe ==
  (/\ UnknownPush
   /\ LET t == upper(trim_start(PushedProbe))
      IN t = <<>> \/ (~starts_with(t, ACTION_MARKER) /\ ~starts_with(ACTION_MARKER, t)))
    => /\ g_gate.out = <<PushedProbe>>
       /\ g_gate.mode = "Emit"
       /\ g_gate.probe = <<>>

\* a push that flushed text buffered by an earlier call together with its own
C3_Witness ==
  /\ UnknownPush
  /\ g_last.before.probe # <<>>
  /\ g_gate.mode = "Emit"
  /\ g_gate.out = <<PushedProbe>>

\* C4 as stated: after finalize the emitted tokens concatenate to the input
\* with the marker removed when the input starts with the marker, and to the
\* input itself when it holds no marker.
C4_AsStated ==
  g_pc = "finalized" =>
    /\ StartsWithMarker(g_input) =>
         Concat(g_gate.out) = SkipChars(g_input, Len(ACTION_MARKER))
    /\ ~Contains(upper(g_input), ACTION_MARKER) => Concat(g_gate.out) = g_input

\* C4 (amended): after finalize nothing at all has been emitted when the
\* input starts with the marker, and the emitted tokens concatenate to the
\* input itself when it holds no marker.
C4_EmittedText ==
  g_pc = "finalized" =>
    /\ StartsWithMarker(g_input) => Concat(g_gate.out) = <<>>
    /\ ~Contains(upper(g_input), ACTION_MARKER) => Concat(g_gate.out) = g_input

\* an input with text after the marker, finalized with nothing emitted
C4_Witness ==
  /\ g_pc = "finalized"
  /\ StartsWithMarker(g_input)
  /\ Len(g_input) > Len(ACTION_MARKER)
  /\ g_last.n >= 2
  /\ g_gate.out = <<>>

(***************************************************************************)
(* Continuation controller: call_openai_unbounded (commands.rs:1673-1894)  *)
(* and call_anthropic_unbounded (commands.rs:1896-2088).                   *)
(* ctl holds the locals of one call; pc = "req" is the point where the     *)
(* next HTTP request of round ctl.round is built and sent.                 *)
(***************************************************************************)
FALLBACK_CHUNK_MAX_TOKENS == 32000

CHUNK_MAX_TOKENS == 32000

CONTINUE_PROMPT == <<"Continue from exactly where you stopped. Do not repeat prior text.">>

TRUNCATION_NOTICE ==
  <<"\n", "\n", "[output may be truncated after repeated continuations]">>

\* the finish_reason / stop_reason that means the output was cut by length
CappedReason(kind) == IF kind = "openai" THEN "length" ELSE "max_tokens"

\* a plausible slip: the OpenAI value is used for both providers
ShouldStopLengthOnly(kind, reason) == reason # "length"

\* finish_reason.as_deref() != Some("length") / stop_reason != Some("max_tokens")
ShouldStop(kind, reason) == reason # CappedReason(kind)

\* a plausible slip: the notice is appended one round early
IsLastRoundEarly(round) == round >= MAX_CONTINUATIONS - 1

\* round == MAX_CONTINUATIONS
IsLastRound(round) == round = MAX_CONTINUATIONS

\* the conversation handed to the call (messages: Vec<ChatMessage>)
Conversation ==
  <<[role |-> "user", content |-> <<"q">>],
    [role |-> "assistant", content |-> <<"a">>],
    [role |-> "user", content |-> <<"r">>]>>

\* a plausible slip: the system message is pushed after the conversation
InitMessagesSystemLast(kind, system_prompt) ==
  IF kind = "openai" /\ trim(system_prompt) # <<>>
  THEN Conversation \o <<[role |-> "system", content |-> system_prompt]>>
  ELSE Conversation

\* out_messages before the first round: the OpenAI controller puts the
\* system prompt first unless it is blank; the Anthropic controller sends
\* the system prompt as a body field of its own
InitMessages(kind, system_prompt) ==
  IF kind = "openai" /\ trim(system_prompt) # <<>>
  THEN <<[role |-> "system", content |-> system_prompt]>> \o Conversation
  ELSE Conversation

CtlInit(kind, live, system_prompt) ==
  [kind |-> kind, live |-> live, pc |-> "req", err |-> "",
   round |-> 0, stream_supported |-> TRUE, use_fallback_chunk_limit |-> FALSE,
   full_text |-> <<>>, gate |-> LiveEmitGate_new, finalize_calls |-> 0,
   system_prompt |-> system_prompt,
   out_messages |-> InitMessages(kind, system_prompt), outcomes |-> <<>>]

\* return Err(..)
Fail(c, msg) == [c EXCEPT !.pc = "err", !.err = msg]

\* a plausible slip: stream_supported is declared inside the for loop, so
\* every round starts by streaming again
NextIterationRestream(c) ==
  IF c.round = MAX_CONTINUATIONS
  THEN [c EXCEPT !.gate = finalize(c.gate, c.live), !.finalize_calls = @ + 1, !.pc = "ok"]
  ELSE [c EXCEPT !.round = c.round + 1, !.use_fallback_chunk_limit = FALSE,
                 !.stream_supported = TRUE]

\* a plausible slip: use_fallback_chunk_limit is declared before the for
\* loop, so the ceiling outlives the round that needed it
NextIterationKeepCeiling(c) ==
  IF c.round = MAX_CONTINUATIONS
  THEN [c EXCEPT !.gate = finalize(c.gate, c.live), !.finalize_calls = @ + 1, !.pc = "ok"]
  ELSE [c EXCEPT !.round = c.round + 1]

\* a plausible slip: the round loop is a while loop whose counter is not
\* advanced on this path
NextIterationNoAdvance(c) ==
  IF c.round = MAX_CONTINUATIONS
  THEN [c EXCEPT !.gate = finalize(c.gate, c.live), !.finalize_calls = @ + 1, !.pc = "ok"]
  ELSE [c EXCEPT !.use_fallback_chunk_limit = FALSE]

\* the for loop takes its next iteration, or is exhausted: finalize, Ok
NextIteration(c) ==
  IF c.round = MAX_CONTINUATIONS
  THEN [c EXCEPT !.gate = finalize(c.gate, c.live), !.finalize_calls = @ + 1, !.pc = "ok"]
  ELSE [c EXCEPT !.round = c.round + 1, !.use_fallback_chunk_limit = FALSE]

\* a plausible slip: the transcript is fed downstream of the gate, so text
\* the gate withholds from a live sink does not reach it
ApplyDeltaGated(acc, content, live) ==
  LET r == append_chunk_with_overlap(acc.full_text, content)
      g == push(acc.gate, live, r.unique)
  IN IF r.unique # <<>>
     THEN [full_text |-> IF live /\ g.mode = "Suppress" THEN acc.full_text
                         ELSE r.full_text,
           round_unique |-> acc.round_unique \o r.unique,
           gate |-> g]
     ELSE [acc EXCEPT !.full_text = r.full_text]

\* a plausible slip: the gate is fed the delta as it arrived, not the part
\* of it that the transcript took
ApplyDeltaPushRaw(acc, content, live) ==
  LET r == append_chunk_with_overlap(acc.full_text, content)
  IN IF r.unique # <<>>
     THEN [full_text |-> r.full_text,
           round_unique |-> acc.round_unique \o r.unique,
           gate |-> push(acc.gate, live, content)]
     ELSE [acc EXCEPT !.full_text = r.full_text]

\* one content delta of a streaming body
ApplyDelta(acc, content, live) ==
  LET r == append_chunk_with_overlap(acc.full_text, content)
  IN IF r.unique # <<>>
     THEN [full_text |-> r.full_text,
           round_unique |-> acc.round_unique \o r.unique,
           gate |-> push(acc.gate, live, r.unique)]
     ELSE [acc EXCEPT !.full_text = r.full_text]

RECURSIVE ApplyDeltas(_, _, _)
ApplyDeltas(acc, deltas, live) ==
  IF deltas = <<>> THEN acc
  ELSE ApplyDeltas(ApplyDelta(acc, Head(deltas), live), Tail(deltas), live)

\* the rest of a loop iteration once the round has a (chunk, reason,
\* stream_applied) triple; outcomes lists the RoundOutcome of every round
CompleteRound(c, chunk, reason, stream_applied) ==
  IF stream_applied /\ chunk = <<>> /\ reason = "none"
  THEN NextIteration([c EXCEPT !.stream_supported = FALSE])
  ELSE
    LET r == append_chunk_with_overlap(c.full_text, chunk)
        unique_chunk == IF stream_applied THEN chunk ELSE r.unique
        full == IF stream_applied THEN c.full_text ELSE r.full_text
        gate == IF stream_applied THEN c.gate ELSE push(c.gate, c.live, r.unique)
        c1 == [c EXCEPT !.outcomes = Append(c.outcomes,
                 [unique |-> unique_chunk, reason |-> reason, stream |-> stream_applied])]
    IN IF ShouldStop(c.kind, reason)
       THEN [c1 EXCEPT !.full_text = full, !.gate = finalize(gate, c.live),
                       !.finalize_calls = @ + 1, !.pc = "ok"]
       ELSE IF IsLastRound(c.round)
       THEN [c1 EXCEPT !.full_text = full \o TRUNCATION_NOTICE,
                       !.gate = finalize(push(gate, c.live, TRUNCATION_NOTICE), c.live),
                       !.finalize_calls = @ + 1,
                       !.pc = "ok"]
       ELSE NextIteration(
              [c1 EXCEPT !.full_text = full, !.gate = gate,
                         !.out_messages = c.out_messages \o
                           <<[role |-> "assistant", content |-> unique_chunk],
                             [role |-> "user", content |-> CONTINUE_PROMPT]>>])

\* a plausible slip: the retry is sent without the ceiling
OpenAIRequestNoCeiling(c) ==
  [round |-> c.round, stream |-> c.stream_supported, max_tokens |-> 0,
   messages |-> c.out_messages]

\* the request body of the OpenAI controller; max_tokens = 0: field absent
OpenAIRequest(c) ==
  [round |-> c.round, stream |-> c.stream_supported,
   max_tokens |-> IF c.use_fallback_chunk_limit THEN FALLBACK_CHUNK_MAX_TOKENS ELSE 0,
   messages |-> c.out_messages]

\* the request body of the Anthropic controller
AnthropicRequest(c) ==
  [round |-> c.round, stream |-> c.stream_supported, max_tokens |-> CHUNK_MAX_TOKENS,
   messages |-> c.out_messages]

\* a plausible slip: the test forgets status.is_client_error()
LooksLikeAnyStatus(c, err) ==
  ~c.use_fallback_chunk_limit /\ err.max_tokens

\* a plausible slip: the test forgets that the ceiling is already set
LooksLikeEveryTime(c, err) ==
  err.class = "4xx" /\ err.max_tokens

\* status.is_client_error() && !use_fallback_chunk_limit && body mentions max_tokens
looks_like_missing_max_tokens(c, err) ==
  err.class = "4xx" /\ ~c.use_fallback_chunk_limit /\ err.max_tokens

\* OpenAI, stream_supported: the response to a stream: true request
OpenAIStream(c, resp) ==
  CASE resp.type = "send_err" -> Fail(c, "request failed")
    [] resp.type = "text_err" -> Fail(c, "decode failed")
    [] resp.type = "status" ->
         IF looks_like_missing_max_tokens(c, resp.err)
         THEN [c EXCEPT !.use_fallback_chunk_limit = TRUE]
         ELSE IF resp.err.stream THEN [c EXCEPT !.stream_supported = FALSE]
         ELSE Fail(c, "http")
    [] OTHER ->
         LET acc == ApplyDeltas([full_text |-> c.full_text, round_unique |-> <<>>,
                                 gate |-> c.gate], resp.deltas, c.live)
             c1 == [c EXCEPT !.full_text = acc.full_text, !.gate = acc.gate]
         IN IF resp.fault = "read" THEN Fail(c1, "stream read failed")
            ELSE IF resp.fault = "parse" THEN Fail(c1, "stream parse failed")
            ELSE IF acc.round_unique = <<>> /\ resp.reason = "none"
            THEN [c1 EXCEPT !.stream_supported = FALSE]
            ELSE CompleteRound(c1, acc.round_unique, resp.reason, TRUE)

\* OpenAI, not stream_supported: the response to a stream: false request
OpenAIBatch(c, resp) ==
  CASE resp.type = "send_err" -> Fail(c, "request failed")
    [] resp.type = "decode_err" -> Fail(c, "decode failed")
    [] resp.type = "status" ->
         IF looks_like_missing_max_tokens(c, resp.err)
         THEN [c EXCEPT !.use_fallback_chunk_limit = TRUE]
         ELSE Fail(c, "http")
    [] OTHER ->
         IF ~resp.has_content THEN Fail(c, "missing choices[0].message.content")
         ELSE CompleteRound(c, resp.content, resp.reason, FALSE)

\* Anthropic, stream_supported
AnthropicStream(c, resp) ==
  CASE resp.type = "send_err" -> Fail(c, "request failed")
    [] resp.type = "text_err" -> Fail(c, "decode failed")
    [] resp.type = "status" ->
         IF resp.err.stream THEN NextIteration([c EXCEPT !.stream_supported = FALSE])
         ELSE Fail(c, "http")
    [] OTHER ->
         LET acc == ApplyDeltas([full_text |-> c.full_text, round_unique |-> <<>>,
                                 gate |-> c.gate], resp.deltas, c.live)
             c1 == [c EXCEPT !.full_text = acc.full_text, !.gate = acc.gate]
         IN IF resp.fault = "read" THEN Fail(c1, "stream read failed")
            ELSE IF resp.fault = "parse" THEN Fail(c1, "stream parse failed")
            ELSE IF acc.round_unique = <<>> /\ resp.reason = "none"
            THEN NextIteration([c1 EXCEPT !.stream_supported = FALSE])
            ELSE CompleteRound(c1, acc.round_unique, resp.reason, TRUE)

\* Anthropic, not stream_supported
AnthropicBatch(c, resp) ==
  CASE resp.type = "send_err" -> Fail(c, "request failed")
    [] resp.type = "decode_err" -> Fail(c, "decode failed")
    [] resp.type = "status" -> Fail(c, "http")
    [] OTHER ->
         IF ~resp.has_content \/ resp.content = <<>> THEN Fail(c, "missing content[].text")
         ELSE CompleteRound(c, resp.content, resp.reason, FALSE)

(***************************************************************************)
(* Specification SpecCtl: one call of either controller against a provider *)
(* that answers every request in any of the ways below.                    *)
(***************************************************************************)
Reasons == {"length", "max_tokens", "stop", "none"}

TextA == <<"A", "C", "T", "I">>

TextB == <<"I", "O", "N", ":">>

TextX == <<"x", "I">>

\* the content deltas of one streaming body, in order
StreamBodies == {<<>>, <<TextA>>, <<TextX>>, <<TextA, TextB>>, <<TextB, TextB>>}

BatchChunks == {<<>>, TextA, TextB, TextX}

\* non-2xx answers: the status class, whether the body mentions max_tokens,
\* whether the body says that streaming is not supported
HttpErrors ==
  {[class |-> "4xx", max_tokens |-> TRUE, stream |-> FALSE],
   [class |-> "4xx", max_tokens |-> FALSE, stream |-> TRUE],
   [class |-> "4xx", max_tokens |-> TRUE, stream |-> TRUE],
   [class |-> "5xx", max_tokens |-> TRUE, stream |-> FALSE],
   [class |-> "4xx", max_tokens |-> FALSE, stream |-> FALSE]}

NoError == [class |-> "2xx", max_tokens |-> FALSE, stream |-> FALSE]

StreamResponses ==
  [type : {"send_err", "text_err"}, err : {NoError}, deltas : {<<>>},
   reason : {"none"}, fault : {"none"}]
    \cup [type : {"status"}, err : HttpErrors, deltas : {<<>>},
          reason : {"none"}, fault : {"none"}]
    \cup [type : {"body"}, err : {NoError}, deltas : StreamBodies,
          reason : Reasons, fault : {"none"}]
    \cup [type : {"body"}, err : {NoError}, deltas : {<<>>, <<TextX>>},
          reason : {"none"}, fault : {"read", "parse"}]

BatchResponses ==
  [type : {"send_err", "decode_err"}, err : {NoError}, has_content : {FALSE},
   content : {<<>>}, reason : {"none"}]
    \cup [type : {"status"}, err : HttpErrors, has_content : {FALSE},
          content : {<<>>}, reason : {"none"}]
    \cup [type : {"json"}, err : {NoError}, has_content : {TRUE},
          content : BatchChunks, reason : Reasons]
    \cup [type : {"json"}, err : {NoError}, has_content : {FALSE},
          content : {<<>>}, reason : {"none"}]

\* what an attempt adds to the history: the request, the kind of answer and
\* the content pieces the answer delivered, in arrival order
Attempt(req, resp) ==
  [round |-> req.round, stream |-> req.stream, max_tokens |-> req.max_tokens,
   messages |-> req.messages,
   type |-> resp.type, err |-> resp.err,
   delivered |-> IF resp.type = "body" THEN resp.deltas
                 ELSE IF resp.type = "json" THEN <<resp.content>>
                 ELSE <<>>]

Record(c, c2, req, resp) ==
  LET attempts == Append(c_hist.attempts, Attempt(req, resp))
      ended == c2.pc = "req" /\ c2.round # c.round
      capped == /\ Len(c2.outcomes) > Len(c.outcomes)
                /\ ~ShouldStop(c.kind, c2.outcomes[Len(c2.outcomes)].reason)
  IN [attempts |-> IF ended THEN <<>> ELSE attempts,
      last_round |-> IF ended THEN attempts ELSE c_hist.last_round,
      clean |-> c_hist.clean /\ capped]

\* the system prompt of the call: empty, blank, or text
SystemPrompts == {<<>>, <<" ">>, <<"s">>}

InitCtl ==
  /\ \E kind \in {"openai", "anthropic"}, live \in BOOLEAN, sp \in SystemPrompts :
       /\ ctl = CtlInit(kind, live, sp)
       /\ c_twin = CtlInit(kind, FALSE, sp)
  /\ c_hist = HistInit
  /\ CredIdle
  /\ DedupIdle
  /\ GateIdle
  /\ RegInit
  /\ DecoderIdle
  /\ PureIdle

OpenAIStreamAttempt ==
  /\ ctl.pc = "req" /\ ctl.kind = "openai" /\ ctl.stream_supported
  /\ \E resp \in StreamResponses :
       LET c2 == OpenAIStream(ctl, resp)
       IN /\ ctl' = c2
          /\ c_hist' = Record(ctl, c2, OpenAIRequest(ctl), resp)
          /\ c_twin' = OpenAIStream(c_twin, resp)
  /\ UNCHANGED <<dvars, gvars, rvars, cred, svars, pvars>>

OpenAIBatchAttempt ==
  /\ ctl.pc = "req" /\ ctl.kind = "openai" /\ ~ctl.stream_supported
  /\ \E resp \in BatchResponses :
       LET c2 == OpenAIBatch(ctl, resp)
       IN /\ ctl' = c2
          /\ c_hist' = Record(ctl, c2, OpenAIRequest(ctl), resp)
          /\ c_twin' = OpenAIBatch(c_twin, resp)
  /\ UNCHANGED <<dvars, gvars, rvars, cred, svars, pvars>>

AnthropicStreamAttempt ==
  /\ ctl.pc = "req" /\ ctl.kind = "anthropic" /\ ctl.stream_supported
  /\ \E resp \in StreamResponses :
       LET c2 == AnthropicStream(ctl, resp)
       IN /\ ctl' = c2
          /\ c_hist' = Record(ctl, c2, AnthropicRequest(ctl), resp)
          /\ c_twin' = AnthropicStream(c_twin, resp)
  /\ UNCHANGED <<dvars, gvars, rvars, cred, svars, pvars>>

AnthropicBatchAttempt ==
  /\ ctl.pc = "req" /\ ctl.kind = "anthropic" /\ ~ctl.stream_supported
  /\ \E resp \in BatchResponses :
       LET c2 == AnthropicBatch(ctl, resp)
       IN /\ ctl' = c2
          /\ c_hist' = Record(ctl, c2, AnthropicRequest(ctl), resp)
          /\ c_twin' = AnthropicBatch(c_twin, resp)
  /\ UNCHANGED <<dvars, gvars, rvars, cred, svars, pvars>>

NextCtl ==
  \/ OpenAIStreamAttempt
  \/ OpenAIBatchAttempt
  \/ AnthropicStreamAttempt
  \/ AnthropicBatchAttempt

SpecCtl == InitCtl /\ [][NextCtl]_vars

RECURSIVE ConcatUnique(_)
ConcatUnique(os) == IF os = <<>> THEN <<>> ELSE Head(os).unique \o ConcatUnique(Tail(os))

\* the rounds i..j of os all reported the length-capped reason
CappedRounds(os, i, j) == \A k \in i..j : os[k].reason = CappedReason(ctl.kind)

Running == ctl.pc \in {"req", "ok", "err"}

\* C5: a round is an exchange that yields a round outcome (unique text,
\* reason).  While the call goes on every round so far was length-capped;
\* after n < MAX_CONTINUATIONS capped rounds the call has not returned Ok; and
\* once n capped rounds are followed by a round with another reason or none,
\* the call has returned Ok in that very step (no further request), with the
\* transcript the concatenation of the rounds' unique texts and no notice.
\* Text, transport, provider kind and sink play no part in the decision.
C5_StopsOnFirstUncapped ==
  Running =>
    LET os == ctl.outcomes
        n == Len(os) - 1
    IN /\ ctl.pc = "req" => CappedRounds(os, 1, Len(os))
       /\ (Len(os) < MAX_CONTINUATIONS /\ CappedRounds(os, 1, Len(os))) => ctl.pc # "ok"
       /\ (/\ os # <<>>
           /\ n < MAX_CONTINUATIONS
           /\ CappedRounds(os, 1, n)
           /\ os[n + 1].reason # CappedReason(ctl.kind))
            => /\ ctl.pc = "ok"
               /\ ctl.full_text = ConcatUnique(os)
               /\ ~ends_with(ctl.full_text, TRUNCATION_NOTICE)

\* a call that returned after capped rounds and a last round without a reason
C5_Witness ==
  /\ ctl.pc = "ok"
  /\ Len(ctl.outcomes) = MAX_CONTINUATIONS
  /\ MAX_CONTINUATIONS >= 2
  /\ CappedRounds(ctl.outcomes, 1, MAX_CONTINUATIONS - 1)
  /\ ctl.outcomes[MAX_CONTINUATIONS].reason = "none"
  /\ ctl.outcomes[MAX_CONTINUATIONS].unique # <<>>
  /\ ctl.full_text = ConcatUnique(ctl.outcomes)

\* C6 as stated: with every answer of the provider a length-capped round, the
\* call returns Ok after MAX_CONTINUATIONS rounds, the transcript ending with
\* the truncation notice.
C6_AsStated ==
  (Running /\ c_hist.clean) =>
    /\ Len(ctl.outcomes) = MAX_CONTINUATIONS => ctl.pc = "ok"
    /\ ctl.pc = "ok" =>
         /\ Len(ctl.outcomes) = MAX_CONTINUATIONS
         /\ ends_with(ctl.full_text, TRUNCATION_NOTICE)

\* C6 (amended): with every answer of the provider a length-capped round, the
\* call goes on through MAX_CONTINUATIONS rounds and returns Ok after round
\* MAX_CONTINUATIONS + 1 (the first round and MAX_CONTINUATIONS
\* continuations), the transcript being the rounds' unique texts followed by
\* the truncation notice.
C6_StopsAfterBudget ==
  (Running /\ c_hist.clean) =>
    /\ Len(ctl.outcomes) <= MAX_CONTINUATIONS => ctl.pc = "req"
    /\ Len(ctl.outcomes) > MAX_CONTINUATIONS =>
         /\ Len(ctl.outcomes) = MAX_CONTINUATIONS + 1
         /\ ctl.pc = "ok"
         /\ ctl.err = ""
         /\ ctl.full_text = ConcatUnique(ctl.outcomes) \o TRUNCATION_NOTICE

\* a call that ran out of rounds, every round capped
C6_Witness ==
  /\ ctl.pc = "ok"
  /\ c_hist.clean
  /\ Len(ctl.outcomes) = MAX_CONTINUATIONS + 1
  /\ ends_with(ctl.full_text, TRUNCATION_NOTICE)
  /\ Len(ctl.full_text) > Len(TRUNCATION_NOTICE)

\* a 4xx answer whose body mentions max_tokens
MaxTokensRejected(a) == a.type = "status" /\ a.err.class = "4xx" /\ a.err.max_tokens

\* the attempts of the current round and of the round before
RoundAttempts == {c_hist.attempts, c_hist.last_round}

Note(kind, sid, task, cancelled) ==
  [kind |-> kind, sid |-> sid, task |-> task, cancelled |-> cancelled]

\* JoinHandle::abort
Abort(tasks, h) ==
  IF h = NoHandle THEN tasks ELSE [tasks EXCEPT ![h].aborted = TRUE]

\* emit_stream_done
\* window.emit: the events about one task in the order they were emitted
Emit(notes, task, ns) == [notes EXCEPT ![task] = @ \o ns]

emit_stream_done(notes, sid, task, cancelled) ==
  Emit(notes, task, <<Note("done", sid, task, cancelled)>>)

\* clear_stream_task: removes whatever entry the identity has
clear_stream_task(registry, sid) == [registry EXCEPT ![sid] = NoHandle]

Unspawned == {t \in TaskIds : r_tasks[t].pc = "unspawned"}

\* chat_generate_stream up to and including tauri::async_runtime::spawn
GenerateSpawn(s) ==
  /\ r_call.op = "none"
  /\ Unspawned # {}
  /\ LET t == SetMin(Unspawned)
     IN /\ r_tasks' = [r_tasks EXCEPT ![t] =
                         [pc |-> "spawned", sid |-> s, aborted |-> FALSE,
                          emitted |-> FALSE]]
        /\ r_call' = [op |-> "generate", sid |-> s, task |-> t,
                      had |-> r_registry[s]]
  /\ UNCHANGED <<r_registry, r_notes, r_ncancel, dvars, gvars, cvars, svars, pvars>>

\* if let Some(prev) = tasks.insert(stream_id, task) { prev.abort(); }
Register(registry, tasks, call) ==
  [registry |-> [registry EXCEPT ![call.sid] = call.task],
   tasks |-> Abort(tasks, registry[call.sid])]

\* chat_generate_stream from the lock to Ok(())
GenerateRegister ==
  /\ r_call.op = "generate"
  /\ LET r == Register(r_registry, r_tasks, r_call)
     IN /\ r_registry' = r.registry
        /\ r_tasks' = r.tasks
  /\ r_call' = NoCall
  /\ UNCHANGED <<r_notes, r_ncancel, dvars, gvars, cvars, svars, pvars>>

\* a plausible slip: the handle is read (tasks.get) and the entry stays
CancelPeek(s) ==
  /\ r_call.op = "none"
  /\ r_ncancel < MaxCancels
  /\ r_call' = [op |-> "cancel", sid |-> s, task |-> r_registry[s],
                had |-> r_registry[s]]
  /\ r_ncancel' = r_ncancel + 1
  /\ UNCHANGED <<r_registry, r_tasks, r_notes, dvars, gvars, cvars, svars, pvars>>

\* chat_cancel_stream: let handle = { lock; tasks.remove(&stream_id) }
CancelTake(s) ==
  /\ r_call.op = "none"
  /\ r_ncancel < MaxCancels
  /\ r_call' = [op |-> "cancel", sid |-> s, task |-> r_registry[s],
                had |-> r_registry[s]]
  /\ r_registry' = [r_registry EXCEPT ![s] = NoHandle]
  /\ r_ncancel' = r_ncancel + 1
  /\ UNCHANGED <<r_tasks, r_notes, dvars, gvars, cvars, svars, pvars>>

\* chat_cancel_stream: abort the handle if there was one, emit done(true), Ok
CancelFinish ==
  /\ r_call.op = "cancel"
  /\ r_tasks' = Abort(r_tasks, r_call.task)
  /\ r_notes' = emit_stream_done(r_notes, r_call.sid, r_call.task, TRUE)
  /\ r_call' = NoCall
  /\ UNCHANGED <<r_registry, r_ncancel, dvars, gvars, cvars, svars, pvars>>

\* the suspension points of a task, where abort() takes effect
Suspended == {"spawned", "awaiting", "replaying"}

TaskFrame == UNCHANGED <<r_call, r_ncancel, dvars, gvars, cvars, svars, pvars>>

\* first poll of the task: ai_stream_start and status "initializing", then
\* either the settings or the provider entry is missing (ai_error with stage
\* "settings", 1438-1453 and 1475-1487) or the task enters run_react
TaskStart(t) ==
  /\ r_tasks[t].pc = "spawned"
  /\ ~r_tasks[t].aborted
  /\ \E ok \in BOOLEAN :
       LET sid == r_tasks[t].sid
           begun == <<Note("start", sid, t, FALSE),
                      Note("status", sid, t, FALSE)>>
       IN IF ok
          THEN /\ r_notes' = Emit(r_notes, t, Append(begun,
                                    Note("status", sid, t, FALSE)))
               /\ r_tasks' = [r_tasks EXCEPT ![t].pc = "awaiting"]
          ELSE /\ r_notes' = Emit(r_notes, t, Append(begun,
                                    Note("error", sid, t, FALSE)))
               /\ r_tasks' = [r_tasks EXCEPT ![t].pc = "clearing"]
  /\ UNCHANGED r_registry
  /\ TaskFrame

\* inside run_react: the controller's sink emits a live token
TaskToken(t) ==
  /\ r_tasks[t].pc = "awaiting"
  /\ ~r_tasks[t].aborted
  /\ ~r_tasks[t].emitted
  /\ r_notes' = Emit(r_notes, t,
                     <<Note("token", r_tasks[t].sid, t, FALSE)>>)
  /\ r_tasks' = [r_tasks EXCEPT ![t].emitted = TRUE]
  /\ UNCHANGED r_registry
  /\ TaskFrame

\* run_react returns Err: ai_error, then the completion path (1540-1562)
TaskFail(t) ==
  /\ r_tasks[t].pc = "awaiting"
  /\ ~r_tasks[t].aborted
  /\ r_notes' = Emit(r_notes, t,
                     <<Note("error", r_tasks[t].sid, t, FALSE)>>)
  /\ r_tasks' = [r_tasks EXCEPT ![t].pc = "clearing"]
  /\ UNCHANGED r_registry
  /\ TaskFrame

\* run_react returns Ok: when nothing was emitted live the response is
\* replayed (1597-1617); a response of 48 characters or more sleeps after a
\* fragment (long), a shorter one is emitted without suspending
TaskRespond(t) ==
  /\ r_tasks[t].pc = "awaiting"
  /\ ~r_tasks[t].aborted
  /\ LET sid == r_tasks[t].sid
     IN IF r_tasks[t].emitted
        THEN /\ r_notes' = r_notes
             /\ r_tasks' = [r_tasks EXCEPT ![t].pc = "clearing"]
        ELSE \E long \in BOOLEAN :
               /\ r_notes' = Emit(r_notes, t,
                                  <<Note("status", sid, t, FALSE),
                                    Note("token", sid, t, FALSE)>>)
               /\ r_tasks' = [r_tasks EXCEPT
                                ![t].pc = IF long THEN "replaying"
                                          ELSE "clearing"]
  /\ UNCHANGED r_registry
  /\ TaskFrame

\* the replay loop wakes from its sleep and emits the rest of the response
TaskReplay(t) ==
  /\ r_tasks[t].pc = "replaying"
  /\ ~r_tasks[t].aborted
  /\ r_notes' = Emit(r_notes, t,
                     <<Note("token", r_tasks[t].sid, t, FALSE)>>)
  /\ r_tasks' = [r_tasks EXCEPT ![t].pc = "clearing"]
  /\ UNCHANGED r_registry
  /\ TaskFrame

\* the runtime drops an aborted task at its suspension point
TaskDrop(t) ==
  /\ r_tasks[t].pc \in Suspended
  /\ r_tasks[t].aborted
  /\ r_tasks' = [r_tasks EXCEPT ![t].pc = "dropped"]
  /\ UNCHANGED <<r_registry, r_notes>>
  /\ TaskFrame

\* a plausible slip: the completion path signals without clearing
TaskClearSkip(t) ==
  /\ r_tasks[t].pc = "clearing"
  /\ r_tasks' = [r_tasks EXCEPT ![t].pc = "finishing"]
  /\ UNCHANGED <<r_registry, r_notes>>
  /\ TaskFrame

\* clear_stream_task(&app_for_task, &stream_id_for_task) (1449, 1483, 1559,
\* 1619)
TaskClear(t) ==
  /\ r_tasks[t].pc = "clearing"
  /\ r_registry' = clear_stream_task(r_registry, r_tasks[t].sid)
  /\ r_tasks' = [r_tasks EXCEPT ![t].pc = "finishing"]
  /\ UNCHANGED r_notes
  /\ TaskFrame

\* emit_stream_done(.., false) and the end of the task (1450, 1484, 1560,
\* 1620)
TaskDone(t) ==
  /\ r_tasks[t].pc = "finishing"
  /\ r_notes' = emit_stream_done(r_notes, r_tasks[t].sid, t, FALSE)
  /\ r_tasks' = [r_tasks EXCEPT ![t].pc = "ended"]
  /\ UNCHANGED r_registry
  /\ TaskFrame

InitReg ==
  /\ RegInit
  /\ DedupIdle
  /\ GateIdle
  /\ CtlIdle
  /\ DecoderIdle
  /\ PureIdle

NextReg ==
  \/ \E s \in StreamIds : GenerateSpawn(s)
  \/ GenerateRegister
  \/ \E s \in StreamIds : CancelTake(s)
  \/ CancelFinish
  \/ \E t \in TaskIds : TaskStart(t)
  \/ \E t \in TaskIds : TaskToken(t)
  \/ \E t \in TaskIds : TaskFail(t)
  \/ \E t \in TaskIds : TaskRespond(t)
  \/ \E t \in TaskIds : TaskReplay(t)
  \/ \E t \in TaskIds : TaskDrop(t)
  \/ \E t \in TaskIds : TaskClear(t)
  \/ \E t \in TaskIds : TaskDone(t)

SpecReg == InitReg /\ [][NextReg]_vars

RegTypeOK ==
  /\ r_registry \in [StreamIds -> TaskIds \cup {NoHandle}]
  /\ \A t \in TaskIds : r_tasks[t].pc \in
       {"unspawned", "spawned", "awaiting", "replaying", "clearing",
        "finishing", "ended", "dropped"}
  /\ r_ncancel \in 0..MaxCancels

(***************************************************************************)
(* Registry claims.                                                        *)
(***************************************************************************)
\* a step of the command thread that ends a chat_generate_stream call
GenerateReturns == r_call.op = "generate" /\ r_call'.op = "none"

\* C7: when chat_generate_stream is called for an identity whose entry is
\* present in ai_stream_tasks (r_call.had, the entry when the call began),
\* then when the call returns the handle of that prior task has been aborted
\* and the registry maps the identity to the handle of the new task.
C7_AsStated ==
  [][(GenerateReturns /\ r_call.had # NoHandle)
       => /\ r_tasks'[r_call.had].aborted
          /\ r_registry'[r_call.sid] = r_call.task]_vars

\* a step of a chat_cancel_stream call that found no entry for its identity
CancelAbsentStep ==
  \/ r_call.op = "none" /\ r_call'.op = "cancel" /\ r_call'.had = NoHandle
  \/ r_call.op = "cancel" /\ r_call'.op = "none" /\ r_call.had = NoHandle

\* C8: chat_cancel_stream on an identity with no registered task is a no-op:
\* its steps leave the registry unchanged, abort no task and emit no
\* notification.
C8_AsStated ==
  [][CancelAbsentStep => UNCHANGED <<r_registry, r_tasks, r_notes>>]_vars

\* the done notifications about task t, in order
Dones(t) == SelectSeq(r_notes[t], LAMBDA n : n.kind = "done")

\* C10: over its lifetime a task gets exactly one done notification, whatever
\* the interleaving of its completion with chat_cancel_stream calls: never
\* two, never both done(true) and done(false), and one once it has ended.
C10_AsStated ==
  \A t \in TaskIds :
    /\ Len(Dones(t)) <= 1
    /\ r_tasks[t].pc = "ended" => Len(Dones(t)) = 1

\* a task that has been spawned and has not come to its end
TaskRunning(t) == r_tasks[t].pc \notin {"unspawned", "ended", "dropped"}

\* the running tasks of an identity that no abort() has been called on
Unrevoked(s) ==
  {t \in TaskIds : TaskRunning(t) /\ r_tasks[t].sid = s /\ ~r_tasks[t].aborted}

\* C11: for each identity at most one task is running that has not been
\* aborted (a later registration has revoked every earlier task), in every
\* state in which no command is in the middle of its call.
C11_AsStated ==
  r_call.op = "none" => \A s \in StreamIds : Cardinality(Unrevoked(s)) <= 1


\* the steps of a chat_cancel_stream call that found a handle for its identity
CancelTakes == r_call.op = "none" /\ r_call'.op = "cancel" /\ r_call'.had # NoHandle

CancelReturns == r_call.op = "cancel" /\ r_call'.op = "none" /\ r_call.had # NoHandle

\* C12: chat_cancel_stream on an identity with a registered task removes the
\* entry, aborts that task's handle and emits done(cancelled=true) for the
\* identity; when it returns the identity has no entry, and an entry appears
\* again only by the registration of a chat_generate_stream call.
C12_CancelRegistered ==
  [][/\ CancelTakes => r_registry'[r_call'.sid] = NoHandle
     /\ CancelReturns =>
          /\ r_tasks'[r_call.had].aborted
          /\ r_notes'[r_call.had] =
               Append(r_notes[r_call.had],
                      Note("done", r_call.sid, r_call.had, TRUE))
          /\ r_registry'[r_call.sid] = NoHandle
     /\ \A s \in StreamIds :
          (r_registry[s] = NoHandle /\ r_registry'[s] # NoHandle)
             => GenerateReturns /\ r_call.sid = s]_vars

\* a cancel call took the handle of a registered task and has returned: the
\* task is aborted, its done(true) is out and the identity has no entry
C12_Witness ==
  /\ r_call.op = "none"
  /\ \E t \in TaskIds :
       /\ r_tasks[t].aborted
       /\ Len(Dones(t)) >= 1
       /\ Dones(t)[Len(Dones(t))].cancelled
       /\ r_registry[r_tasks[t].sid] = NoHandle


(***************************************************************************)
(* Controller claims, continued.                                           *)
(***************************************************************************)
\* a controller's locals without its sink and its gate
NoGate(c) == [c EXCEPT !.live = FALSE, !.gate = LiveEmitGate_new]

\* C13: the transcript is gate-unfiltered: given the same provider answers
\* the call computes the same transcript (and the same result, requests and
\* rounds) with a live sink as without one, whichever state the gate is in;
\* when the gate has suppressed the display the transcript is not empty and
\* holds the directive text, none of which went to the sink.
C13_GateUnfiltered ==
  ctl.pc # "idle" =>
    /\ NoGate(ctl) = NoGate(c_twin)
    /\ (ctl.live /\ ctl.gate.mode = "Suppress") =>
         /\ StartsWithMarker(trim_start(ctl.full_text))
         /\ ctl.gate.out = <<>>

\* a call with a live sink returned a transcript that the gate suppressed
C13_Witness ==
  /\ ctl.pc = "ok" /\ c_twin.pc = "ok"
  /\ ctl.live
  /\ ctl.gate.mode = "Suppress"
  /\ Len(ctl.full_text) > Len(ACTION_MARKER)
  /\ ctl.full_text = c_twin.full_text


\* the call returned Ok after one round, and that round was streamed
SingleStreamRound ==
  /\ ctl.pc = "ok"
  /\ ctl.round = 0
  /\ Len(ctl.outcomes) = 1
  /\ ctl.outcomes[1].stream
  /\ c_hist.attempts # <<>>

\* the content deltas of the exchange that ended the current round
LastDelivered == c_hist.attempts[Len(c_hist.attempts)].delivered

\* C14: in a request that completes in a single streaming round the returned
\* transcript is the concatenation, in arrival order, of the text of every
\* content delta the provider delivered in that round; and where the gate
\* displays (mode Emit) the live tokens together are that text too.
C14_AsStated ==
  SingleStreamRound =>
    /\ ctl.full_text = Concat(LastDelivered)
    /\ (ctl.live /\ ctl.gate.mode = "Emit") =>
         Concat(ctl.gate.out) = Concat(LastDelivered)


\* the content pieces a provider answer can carry
Pieces == {TextA, TextB, TextX}

\* C15: the transcript only grows: over every step of a request (an answered
\* attempt with its deltas or its batch chunk, the truncation notice, a retry,
\* a fallback) the transcript before the step is a prefix of the transcript
\* after it, and from every transcript a request reaches, appending any
\* further piece leaves that transcript as a prefix.
C15_TranscriptGrows ==
  [][ctl.pc = "req" =>
       /\ starts_with(ctl'.full_text, ctl.full_text)
       /\ \A piece \in Pieces :
            starts_with(append_chunk_with_overlap(ctl'.full_text, piece).full_text,
                        ctl'.full_text)]_vars

\* a call that streamed, fell back to batch, continued and ended with the
\* truncation notice behind its text
C15_Witness ==
  /\ ctl.pc = "ok"
  /\ ends_with(ctl.full_text, TRUNCATION_NOTICE)
  /\ Len(ctl.full_text) > Len(TRUNCATION_NOTICE) + 4
  /\ \E i, j \in 1..Len(ctl.outcomes) :
       /\ ctl.outcomes[i].stream /\ ctl.outcomes[i].unique # <<>>
       /\ ~ctl.outcomes[j].stream /\ ctl.outcomes[j].unique # <<>>


(***************************************************************************)
(* Gate claims, continued.                                                 *)
(***************************************************************************)
\* C16: after every push and finalize call, in every gate state, the probe
\* buffer is at most as long as the marker "ACTION:" (7 characters).
C16_AsStated == Len(g_gate.probe) <= Len(ACTION_MARKER)


(***************************************************************************)
(* Specification SpecCred: the head of call_openai_unbounded and of        *)
(* call_anthropic_unbounded (1682-1689, 1904-1911), on every answer of the *)
(* lookup secrets::get_api_key and every configured cfg.api_key.  The      *)
(* requests of a call are sent by its round loop, which starts after the   *)
(* head; requests counts the client.post(..).send() calls made so far.     *)
(***************************************************************************)
Keys == SeqsUpTo({"k", " "}, MaxKey)

\* Result<Option<String>, String> of secrets::get_api_key
Lookups ==
  {[tag |-> "Err", value |-> <<>>], [tag |-> "None", value |-> <<>>]}
    \cup [tag : {"Some"}, value : Keys]

\* a plausible slip: the configured key is preferred to the stored one
ResolvePreferStatic(lookup, static) ==
  IF lookup.tag = "Err" THEN [ok |-> FALSE, err |-> "keyring read failed", api_key |-> <<>>]
  ELSE LET api_key == IF trim(static) # <<>> THEN trim(static) ELSE lookup.value
       IN IF trim(api_key) = <<>>
          THEN [ok |-> FALSE, err |-> "api key not found", api_key |-> <<>>]
          ELSE [ok |-> TRUE, err |-> "", api_key |-> api_key]

\* let api_key = match secrets::get_api_key(app, &cfg.id) { .. };
\* if api_key.trim().is_empty() { return Err(..) }
Resolve(lookup, static) ==
  IF lookup.tag = "Err" THEN [ok |-> FALSE, err |-> "keyring read failed", api_key |-> <<>>]
  ELSE LET api_key == IF lookup.tag = "Some" THEN lookup.value ELSE trim(static)
       IN IF trim(api_key) = <<>>
          THEN [ok |-> FALSE, err |-> "api key not found", api_key |-> <<>>]
          ELSE [ok |-> TRUE, err |-> "", api_key |-> api_key]

InitCred ==
  /\ cred \in [pc : {"call"}, kind : {"openai", "anthropic"}, lookup : Lookups,
               static : Keys, api_key : {<<>>}, err : {""}, requests : {0}]
  /\ CallIdle
  /\ DedupIdle
  /\ GateIdle
  /\ RegInit
  /\ DecoderIdle
  /\ PureIdle

\* the call runs its head: it returns Err, or enters the round loop with the
\* resolved key and no request sent yet
ResolveCredential ==
  /\ cred.pc = "call"
  /\ LET r == Resolve(cred.lookup, cred.static)
     IN cred' = [cred EXCEPT !.pc = IF r.ok THEN "loop" ELSE "err",
                             !.err = r.err, !.api_key = r.api_key]
  /\ UNCHANGED <<ctl, c_hist, c_twin, dvars, gvars, rvars, svars, pvars>>

\* round 0 of the loop sends the call's first request, with the resolved key
\* (bearer_auth(api_key) 1730, header "x-api-key" 1946)
FirstRequest ==
  /\ cred.pc = "loop"
  /\ cred' = [cred EXCEPT !.pc = "sent", !.requests = cred.requests + 1]
  /\ UNCHANGED <<ctl, c_hist, c_twin, dvars, gvars, rvars, svars, pvars>>

NextCred == ResolveCredential \/ FirstRequest

SpecCred == InitCred /\ [][NextCred]_vars

\* C17: the credential is the lookup's value when the lookup returns one,
\* otherwise the configured value; a credential that is empty after trimming
\* makes the call return an error with no request issued, and so does a
\* failed lookup.
C17_CredentialResolution ==
  cred.pc \in {"loop", "sent", "err"} =>
    LET resolved == IF cred.lookup.tag = "Some" THEN cred.lookup.value
                    ELSE trim(cred.static)
    IN /\ cred.pc = "err" => cred.requests = 0
       /\ cred.lookup.tag = "Err" => cred.pc = "err" /\ cred.err = "keyring read failed"
       /\ (cred.lookup.tag # "Err" /\ trim(resolved) = <<>>) =>
            cred.pc = "err" /\ cred.err = "api key not found"
       /\ (cred.lookup.tag # "Err" /\ trim(resolved) # <<>>) =>
            cred.pc # "err" /\ cred.api_key = resolved

\* the lookup returned a blank value while a key is configured: the call
\* has failed without falling back to the configured key
C17_Witness ==
  /\ cred.pc = "err"
  /\ cred.lookup.tag = "Some" /\ cred.lookup.value # <<>>
  /\ trim(cred.static) # <<>>
  /\ cred.requests = 0


(***************************************************************************)
(* Registry claims, continued.                                             *)
(***************************************************************************)
\* task t runs clear_stream_task in this step
Clears(t) == r_tasks[t].pc = "clearing" /\ r_tasks'[t].pc = "finishing"

\* C18: a completing task removes only its own registry entry: when a task
\* that a newer registration has superseded (the entry of its identity is
\* the handle of a task spawned after it) runs its completion path, the
\* newer task's entry is still in the registry afterwards.
C18_AsStated ==
  [][\A t \in TaskIds :
       (Clears(t) /\ r_registry[r_tasks[t].sid] > t)
         => r_registry'[r_tasks[t].sid] = r_registry[r_tasks[t].sid]]_vars

\* the handle of task t has been inserted by the call that spawned it
Registered(t) ==
  /\ r_tasks[t].pc # "unspawned"
  /\ ~(r_call.op = "generate" /\ r_call.task = t)

\* no registration for the identity of t was made after the one of t
LatestRegistered(t) ==
  /\ Registered(t)
  /\ \A u \in TaskIds :
       (u > t /\ r_tasks[u].sid = r_tasks[t].sid) => ~Registered(u)

\* C19: once a task has ended and no later registration for its identity has
\* been made, the registry holds no entry for that identity, also when the
\* task ended before its handle was inserted.
C19_AsStated ==
  \A t \in TaskIds :
    (r_tasks[t].pc = "ended" /\ LatestRegistered(t))
      => r_registry[r_tasks[t].sid] = NoHandle

\* C20: when chat_generate_stream is called for an identity already present,
\* the new task emits no notification (start, status, token) for as long as
\* the prior handle has not been aborted.
C20_AsStated ==
  (/\ r_call.op = "generate"
   /\ r_call.had # NoHandle
   /\ ~r_tasks[r_call.had].aborted)
    => r_notes[r_call.task] = <<>>


\* the notifications of kind k about task t that task t itself emitted
OwnNotes(t, k) ==
  SelectSeq(r_notes[t], LAMBDA n : n.kind = k /\ ~n.cancelled)

\* C21: a task that ends by itself removes the registry entry of its
\* identity before it emits done(cancelled=false), and on the error paths
\* the error notification precedes both: done(false) is emitted only in the
\* step after the removal, the removal leaves the identity without an entry
\* and emits nothing, and an error notification is emitted only in the step
\* that leads to the removal.
C21_CompletionOrder ==
  [][\A t \in TaskIds :
       /\ (r_tasks[t].pc # "ended" /\ r_tasks'[t].pc = "ended") =>
            /\ r_tasks[t].pc = "finishing"
            /\ r_notes'[t] = Append(r_notes[t],
                                    Note("done", r_tasks[t].sid, t, FALSE))
       /\ (r_tasks[t].pc # "finishing" /\ r_tasks'[t].pc = "finishing") =>
            /\ r_tasks[t].pc = "clearing"
            /\ OwnNotes(t, "done") = <<>>
            /\ r_registry'[r_tasks[t].sid] = NoHandle
            /\ r_notes' = r_notes
       /\ Len(OwnNotes(t, "error"))' > Len(OwnNotes(t, "error")) =>
            /\ r_tasks'[t].pc = "clearing"
            /\ r_notes'[t][Len(r_notes'[t])].kind = "error"]_vars

\* a task ended on an error path: error, then the removal, then done(false)
C21_Witness ==
  \E t \in TaskIds :
    /\ r_tasks[t].pc = "ended"
    /\ Len(OwnNotes(t, "error")) = 1
    /\ Len(OwnNotes(t, "done")) = 1
    /\ r_notes[t][Len(r_notes[t])].kind = "done"
    /\ r_registry[r_tasks[t].sid] = NoHandle


(***************************************************************************)
(* Controller claims: retries and fallbacks.                               *)
(***************************************************************************)
\* the attempt that was answered last
LastAttempt(h) ==
  IF h.attempts # <<>> THEN h.attempts[Len(h.attempts)]
  ELSE h.last_round[Len(h.last_round)]

\* this step is a silent stream failure: a streamed body was read to its end,
\* brought no unique text and no reason, and the call goes on in batch mode
SilentStreamStep ==
  /\ ctl.pc = "req" /\ ctl.stream_supported
  /\ ctl'.pc = "req" /\ ~ctl'.stream_supported
  /\ LastAttempt(c_hist').type = "body"

\* C22: in both provider variants a silent stream failure is not counted
\* against the round budget: the batch retry that follows belongs to the same
\* round, so the rounds left before the truncation notice are as many as
\* before the failure.
C22_AsStated ==
  [][SilentStreamStep =>
       /\ ctl'.round = ctl.round
       /\ ctl'.outcomes = ctl.outcomes]_vars


\* the answer to this attempt was a recoverable failure: the endpoint
\* rejected streaming, or the stream was silent
Recoverable(a) ==
  /\ a.stream
  /\ \/ a.type = "status" /\ a.err.stream
     \/ a.type = "body" /\ Concat(a.delivered) = <<>>

\* C23: whenever a controller returns Ok, either the last completed round
\* reported a reason other than length-capped or the transcript ends with the
\* truncation notice; and the attempt answered last was not a rejected or
\* silent stream, which has to be retried in batch mode first.
C23_AsStated ==
  ctl.pc = "ok" =>
    /\ \/ /\ ctl.outcomes # <<>>
          /\ ShouldStop(ctl.kind, ctl.outcomes[Len(ctl.outcomes)].reason)
       \/ ends_with(ctl.full_text, TRUNCATION_NOTICE)
    /\ ~(Recoverable(LastAttempt(c_hist))
         /\ Len(ctl.outcomes) <= LastAttempt(c_hist).round)


\* an attempt of this request went out with stream = false
SentBatch ==
  \E A \in RoundAttempts : \E i \in 1..Len(A) : ~A[i].stream

\* C24: once a request has switched to batch transport, every later HTTP
\* request of it, in the same round or a later one, is sent with
\* stream = false.
C24_StickyFallback ==
  [][(ctl.pc = "req" /\ (~ctl.stream_supported \/ SentBatch)) =>
       /\ ~LastAttempt(c_hist').stream
       /\ ~ctl'.stream_supported]_vars

\* a round was answered in batch mode after the switch, and the round after
\* it was sent in batch mode too
C24_Witness ==
  /\ c_hist.last_round # <<>>
  /\ ~c_hist.last_round[Len(c_hist.last_round)].stream
  /\ c_hist.attempts # <<>>
  /\ ~c_hist.attempts[1].stream
  /\ c_hist.attempts[1].round > 0

\* the answer rejects the request and its body says streaming is not supported
StreamRejected(a) == a.type = "status" /\ a.err.stream

\* attempt j of round A ended the call with an error
Fatal(A, j) == A = c_hist.attempts /\ j = Len(A) /\ ctl.pc = "err"

\* the number of places in round A where the next attempt differs as told
Switches(A, changed(_, _)) ==
  Cardinality({i \in 1..(Len(A) - 1) : changed(A[i], A[i + 1])})

CeilingSet(a, b) == a.max_tokens = 0 /\ b.max_tokens # 0

WentBatch(a, b) == a.stream /\ ~b.stream

RetriesOnce(A) ==
  /\ Switches(A, CeilingSet) <= 1
  /\ Switches(A, WentBatch) <= 1
  /\ \A i \in 1..(Len(A) - 1) :
       /\ A[i].max_tokens # 0 => A[i + 1].max_tokens # 0
       /\ ~A[i].stream => ~A[i + 1].stream
  /\ Len(A) <= 3

\* C25 as stated (OpenAI controller): in one round the ceiling retry and the
\* stream-to-batch fallback are each taken at most once, the round issues at
\* most 3 HTTP requests, and a second error of the same kind in the same
\* round is fatal.
C25_AsStated ==
  ctl.kind = "openai" =>
    \A A \in RoundAttempts :
      /\ RetriesOnce(A)
      /\ \A i, j \in 1..Len(A) :
           i < j =>
             /\ MaxTokensRejected(A[i]) /\ MaxTokensRejected(A[j]) => Fatal(A, j)
             /\ StreamRejected(A[i]) /\ StreamRejected(A[j]) => Fatal(A, j)

\* the recoveries the rejection a asks for have all been taken in its round:
\* a max_tokens rejection of a request that carried the ceiling, a streaming
\* rejection of a request that was not streamed
Exhausted(a) ==
  /\ a.type = "status"
  /\ MaxTokensRejected(a) => a.max_tokens # 0
  /\ StreamRejected(a) => ~a.stream

\* C25 (OpenAI controller): in one round the ceiling retry and the
\* stream-to-batch fallback are each taken at most once and the round issues
\* at most 3 HTTP requests; a rejection that asks only for a recovery the
\* round has already taken is fatal, so a second rejection for max_tokens
\* alone, or for streaming alone, ends the call.
C25_BoundedRetries ==
  ctl.kind = "openai" =>
    \A A \in RoundAttempts :
      /\ RetriesOnce(A)
      /\ \A j \in 1..Len(A) : Exhausted(A[j]) => Fatal(A, j)
      /\ \A i, j \in 1..Len(A) :
           (/\ i < j
            /\ A[i].err = A[j].err
            /\ A[i].type = "status"
            /\ A[i].err.max_tokens # A[i].err.stream) => Fatal(A, j)

\* a round of three requests: rejected for max_tokens, rejected for
\* streaming, and the batch request with the ceiling rejected for max_tokens
C25_Witness ==
  /\ ctl.kind = "openai" /\ ctl.pc = "err"
  /\ Len(c_hist.attempts) = 3
  /\ MaxTokensRejected(c_hist.attempts[1])
  /\ StreamRejected(c_hist.attempts[2])
  /\ MaxTokensRejected(c_hist.attempts[3])
  /\ ~c_hist.attempts[3].err.stream


\* C26 (OpenAI controller): the first attempt of every round is sent without
\* max_tokens, also after a round that retried with the ceiling; max_tokens
\* is present only on attempts that follow a max_tokens rejection in the
\* same round.
C26_CeilingPerRound ==
  ctl.kind = "openai" =>
    /\ \A A \in RoundAttempts :
         /\ A # <<>> => A[1].max_tokens = 0
         /\ \A i \in 1..Len(A) :
              A[i].max_tokens # 0 =>
                /\ A[i].max_tokens = FALLBACK_CHUNK_MAX_TOKENS
                /\ \E k \in 1..(i - 1) :
                     /\ MaxTokensRejected(A[k])
                     /\ A[k].round = A[i].round
    /\ (ctl.pc = "req" /\ c_hist.attempts = <<>>) => ~ctl.use_fallback_chunk_limit

\* the round before needed the ceiling, and the first attempt of the round
\* after it went out without max_tokens
C26_Witness ==
  /\ ctl.kind = "openai"
  /\ \E i \in 1..Len(c_hist.last_round) : c_hist.last_round[i].max_tokens # 0
  /\ c_hist.attempts # <<>>
  /\ c_hist.attempts[1].round > 0
  /\ c_hist.attempts[1].max_tokens = 0


\* the (assistant, user) pairs the continuations after the rounds os add
RECURSIVE Pairs(_)
Pairs(os) ==
  IF os = <<>> THEN <<>>
  ELSE <<[role |-> "assistant", content |-> Head(os).unique],
         [role |-> "user", content |-> CONTINUE_PROMPT]>> \o Pairs(Tail(os))

\* the number of continuations that lead from the list first to the list m
Continuations(first, m) == (Len(m) - Len(first)) \div 2

\* the outgoing list after k continuations of the list first
AfterContinuations(first, k) == first \o Pairs(SubSeq(ctl.outcomes, 1, k))

\* every request of the call sent the list first followed by one pair for
\* each length-capped round before it
MessagesBuiltOn(first) ==
  /\ LET k == Continuations(first, ctl.out_messages)
     IN /\ ctl.out_messages = AfterContinuations(first, k)
        /\ CappedRounds(ctl.outcomes, 1, k)
        /\ k \in {Len(ctl.outcomes) - 1, Len(ctl.outcomes)}
        /\ ctl.pc \in {"req", "err"} => k = Len(ctl.outcomes)
  /\ \A i \in 1..Len(c_hist.attempts) :
       c_hist.attempts[i].messages = ctl.out_messages
  /\ \A i \in 1..Len(c_hist.last_round) :
       LET m == c_hist.last_round[i].messages
       IN /\ Continuations(first, m) <= Continuations(first, ctl.out_messages)
          /\ m = AfterContinuations(first, Continuations(first, m))
          /\ c_hist.last_round[i].round = 0 => m = first

\* the system prompt as the message that leads the OpenAI list
SystemMessage == <<[role |-> "system", content |-> ctl.system_prompt]>>

\* C27 as stated: round 0 sends the conversation, preceded by the system
\* prompt when non-empty (OpenAI); after k length-capped rounds the outgoing
\* list is the round-0 list followed by k pairs (assistant: unique text of
\* round i, user: the continue instruction), the original messages untouched.
C27_AsStated ==
  Running =>
    MessagesBuiltOn(IF ctl.kind = "openai" /\ ctl.system_prompt # <<>>
                    THEN SystemMessage \o Conversation ELSE Conversation)

\* C27: round 0 sends the conversation, preceded by the system prompt unless
\* the prompt is blank (OpenAI); after k length-capped rounds the outgoing
\* list is the round-0 list followed, in order, by k pairs (assistant: unique
\* text of round i, user: the continue instruction); the original messages
\* stay as they were and each continuation adds exactly two messages.
C27_MessageConstruction ==
  Running =>
    MessagesBuiltOn(IF ctl.kind = "openai" /\ trim(ctl.system_prompt) # <<>>
                    THEN SystemMessage \o Conversation ELSE Conversation)

\* an OpenAI call with a system prompt sent the request of its third round:
\* the system message, the conversation and two continuation pairs
C27_Witness ==
  /\ ctl.kind = "openai" /\ ctl.system_prompt = <<"s">>
  /\ c_hist.attempts # <<>>
  /\ Len(c_hist.attempts[1].messages) = 1 + Len(Conversation) + 4
  /\ ctl.outcomes[1].unique # <<>>


(***************************************************************************)
(* The frame decoder of a streaming round (commands.rs:1758-1805 and       *)
(* 1969-2003) and sse_take_line (1405-1413).                               *)
(*                                                                         *)
(* A response body is a sequence of bytes.  The bytes of the wire format   *)
(* that the decoder compares as a whole stand as one symbol each: "d" is   *)
(* the prefix data:, "D" the sentinel [DONE], "c" the opening of a JSON    *)
(* event that carries a content delta (the text is what follows it), "f"   *)
(* a JSON event that carries a completion reason, "o" a JSON event that    *)
(* carries neither, "?" bytes that are not JSON, "e" a line that is not a  *)
(* data line.  "x" is an ASCII letter; "h1" "h2" are the two bytes of one  *)
(* two-byte UTF-8 character, which decodes to "é", and U+FFFD is "#".      *)
(***************************************************************************)
MaxLines == 2

MaxBuf == 5

\* String::from_utf8_lossy of one network chunk
RECURSIVE from_utf8_lossy(_)
from_utf8_lossy(bytes) ==
  IF bytes = <<>> THEN <<>>
  ELSE IF Head(bytes) = "h1" /\ Len(bytes) >= 2 /\ bytes[2] = "h2"
  THEN <<"é">> \o from_utf8_lossy(SkipChars(bytes, 2))
  ELSE IF Head(bytes) \in {"h1", "h2"}
  THEN <<"#">> \o from_utf8_lossy(Tail(bytes))
  ELSE <<Head(bytes)>> \o from_utf8_lossy(Tail(bytes))

\* str::find('\n'): the index of the first newline, 0 when there is none
FindNewline(buffer) ==
  LET at == {i \in 1..Len(buffer) : buffer[i] = "\n"}
  IN IF at = {} THEN 0 ELSE SetMin(at)

\* a plausible slip: every trailing carriage return is removed
RECURSIVE DropReturns(_)
DropReturns(line) ==
  IF ends_with(line, <<"\r">>) THEN DropReturns(SubSeq(line, 1, Len(line) - 1))
  ELSE line

TakeLineTrimAll(buffer) ==
  LET pos == FindNewline(buffer)
  IN IF pos = 0 THEN [some |-> FALSE, line |-> <<>>, buffer |-> buffer]
     ELSE [some |-> TRUE, line |-> DropReturns(SubSeq(buffer, 1, pos - 1)),
           buffer |-> SkipChars(buffer, pos)]

\* sse_take_line: some = FALSE is None; buffer is the buffer afterwards
sse_take_line(buffer) ==
  LET pos == FindNewline(buffer)
      line == SubSeq(buffer, 1, pos - 1)
  IN IF pos = 0 THEN [some |-> FALSE, line |-> <<>>, buffer |-> buffer]
     ELSE [some |-> TRUE,
           line |-> IF ends_with(line, <<"\r">>)
                    THEN SubSeq(line, 1, Len(line) - 1) ELSE line,
           buffer |-> SkipChars(buffer, pos)]

DATA_PREFIX == <<"d">>

DONE_SENTINEL == <<"D">>

TextChars == {"x", "é", "#"}

\* serde_json::from_str succeeds on the payload
ValidJson(data) ==
  /\ data # <<>>
  /\ \/ data \in {<<"f">>, <<"o">>}
     \/ Head(data) = "c" /\ \A i \in 2..Len(data) : data[i] \in TextChars

\* value["choices"][0]["finish_reason"].as_str() / delta.stop_reason
EventReason(data) == IF data = <<"f">> THEN "stop" ELSE "none"

\* value["choices"][0]["delta"]["content"].as_str() / delta.text: has, text
EventHasContent(data) == Head(data) = "c"

EventContent(data) == Tail(data)

\* the locals of a streaming round before the body is read
DecoderInit(full_text) ==
  [sse_buf |-> <<>>, full_text |-> full_text, round_unique |-> <<>>,
   reason |-> "none", gate |-> LiveEmitGate_new, err |-> "",
   sentinel |-> FALSE, late |-> FALSE]

\* what the round has produced so far
Produced(a) == <<a.full_text, a.round_unique, a.reason, a.gate>>

\* one parsed event applied to the locals
ApplyEvent(a, data) ==
  LET a1 == IF EventReason(data) # "none"
            THEN [a EXCEPT !.reason = EventReason(data)] ELSE a
      r == append_chunk_with_overlap(a1.full_text, EventContent(data))
  IN IF EventHasContent(data) /\ r.unique # <<>>
     THEN [a1 EXCEPT !.full_text = r.full_text,
                     !.round_unique = a1.round_unique \o r.unique,
                     !.gate = push(a1.gate, TRUE, r.unique)]
     ELSE IF EventHasContent(data)
     THEN [a1 EXCEPT !.full_text = r.full_text]
     ELSE a1

\* the body of the inner while loop for one line; sentinel and late record
\* that a [DONE] line went by and that a line after it changed the round
DecodeLine(a, line) ==
  IF ~starts_with(line, DATA_PREFIX) THEN a
  ELSE
    LET data == trim(SkipChars(line, Len(DATA_PREFIX)))
    IN IF data = <<>> THEN a
       ELSE IF data = DONE_SENTINEL THEN [a EXCEPT !.sentinel = TRUE]
       ELSE IF ~ValidJson(data) THEN [a EXCEPT !.err = "stream parse failed"]
       ELSE LET a2 == ApplyEvent(a, data)
            IN [a2 EXCEPT !.late = a.late \/ (a.sentinel /\ Produced(a2) # Produced(a))]

\* while let Some(line) = sse_take_line(&mut sse_buf) { .. }, left by `?`
RECURSIVE DrainLines(_)
DrainLines(a) ==
  LET t == sse_take_line(a.sse_buf)
  IN IF ~t.some THEN a
     ELSE LET a2 == DecodeLine([a EXCEPT !.sse_buf = t.buffer], t.line)
          IN IF a2.err # "" THEN a2 ELSE DrainLines(a2)

\* one item of body_stream: the bytes are appended, complete lines decoded
OnChunk(a, bytes) ==
  DrainLines([a EXCEPT !.sse_buf = a.sse_buf \o from_utf8_lossy(bytes)])

\* call_openai_unbounded after the body has ended: the remainder of the
\* buffer is decoded as one more line
TrailingOpenAI(a) ==
  IF trim(a.sse_buf) = <<>> THEN a
  ELSE DecodeLine(a, trim(a.sse_buf))

\* call_anthropic_unbounded after the body has ended: the buffer is dropped
TrailingAnthropic(a) == a

(***************************************************************************)
(* Specification SpecSse: one streamed body, delivered in network chunks   *)
(* of any sizes, decoded by either controller.                             *)
(***************************************************************************)
SseLines ==
  {<<"d", " ", "c", "x">>,
   <<"d", "c", "h1", "h2", "\r">>,
   <<"d", " ", "f">>,
   <<"d", " ", "D">>,
   <<"d", "o">>,
   <<"d">>,
   <<"e">>,
   <<"d", "?">>}

RECURSIVE JoinLines(_)
JoinLines(ls) ==
  IF ls = <<>> THEN <<>> ELSE Head(ls) \o <<"\n">> \o JoinLines(Tail(ls))

\* bodies: up to MaxLines terminated lines, then nothing or one more line
\* that the body ends without terminating
SseBodies ==
  {JoinLines(ls) \o tail : ls \in SeqsUpTo(SseLines, MaxLines),
                           tail \in SseLines \cup {<<>>}}

InitSse ==
  /\ \E kind \in {"openai", "anthropic"}, body \in SseBodies,
        full \in {<<>>, <<"x">>} :
       sse = [pc |-> "read", kind |-> kind, body |-> body, rest |-> body,
              remainder |-> <<>>, start |-> full, loc |-> DecoderInit(full)]
  /\ take = [pc |-> "idle"]
  /\ PureIdle
  /\ DedupIdle
  /\ GateIdle
  /\ CtlIdle
  /\ RegInit

\* body_stream.next() yields Some(Ok(bytes))
SseChunk ==
  /\ sse.pc = "read" /\ sse.rest # <<>>
  /\ \E n \in 1..Len(sse.rest) :
       LET a == OnChunk(sse.loc, FirstChars(sse.rest, n))
       IN sse' = [sse EXCEPT !.rest = SkipChars(sse.rest, n), !.loc = a,
                             !.pc = IF a.err # "" THEN "err" ELSE "read"]
  /\ UNCHANGED <<dvars, gvars, cvars, rvars, take, pvars>>

\* body_stream.next() yields Some(Err(e))
SseReadError ==
  /\ sse.pc = "read" /\ sse.rest # <<>>
  /\ sse' = [sse EXCEPT !.pc = "err", !.loc.err = "stream read failed"]
  /\ UNCHANGED <<dvars, gvars, cvars, rvars, take, pvars>>

\* body_stream.next() yields None
SseEnd ==
  /\ sse.pc = "read" /\ sse.rest = <<>>
  /\ LET a == IF sse.kind = "openai" THEN TrailingOpenAI(sse.loc)
              ELSE TrailingAnthropic(sse.loc)
     IN sse' = [sse EXCEPT !.loc = a, !.remainder = sse.loc.sse_buf,
                           !.pc = IF a.err # "" THEN "err" ELSE "done"]
  /\ UNCHANGED <<dvars, gvars, cvars, rvars, take, pvars>>

NextSse == SseChunk \/ SseReadError \/ SseEnd

SpecSse == InitSse /\ [][NextSse]_vars

(***************************************************************************)
(* Specification SpecTake: sse_take_line called on one buffer until it     *)
(* returns None.                                                           *)
(***************************************************************************)
BufChars == {"a", "\r", "\n"}

InitTake ==
  /\ \E b \in SeqsUpTo(BufChars, MaxBuf) :
       take = [pc |-> "call", orig |-> b, buffer |-> b, lines |-> <<>>, calls |-> 0,
               last |-> [some |-> FALSE, line |-> <<>>, buffer |-> b], before |-> b]
  /\ sse = [pc |-> "idle"]
  /\ PureIdle
  /\ DedupIdle
  /\ GateIdle
  /\ CtlIdle
  /\ RegInit

\* one call; the call that returns None ends the loop
TakeLine ==
  /\ take.pc = "call"
  /\ LET t == sse_take_line(take.buffer)
     IN take' = [take EXCEPT !.buffer = t.buffer, !.last = t,
                             !.before = take.buffer, !.calls = take.calls + 1,
                             !.lines = IF t.some THEN Append(take.lines, t.line)
                                       ELSE take.lines,
                             !.pc = IF t.some THEN "call" ELSE "none"]
  /\ UNCHANGED <<dvars, gvars, cvars, rvars, sse, pvars>>

NextTake == TakeLine

SpecTake == InitTake /\ [][NextTake]_vars


Decoding == sse.pc \in {"read", "done", "err"}

\* C28: once a line whose payload is [DONE] has been decoded, no event line
\* that arrives after it in the same body changes the transcript, the
\* completion reason or the live tokens of the round.
C28_AsStated == Decoding => ~sse.loc.late

\* the step in which the body ends
BodyEnds == sse.pc = "read" /\ sse.rest = <<>> /\ sse'.pc # "read"

\* C29: when the body ends while the buffer holds a non-empty unterminated
\* line, that line is decoded as one final record, in both variants: its
\* delta text is appended to the transcript and its completion reason kept.
C29_AsStated ==
  [][BodyEnds =>
       LET line == trim(sse.loc.sse_buf)
           data == trim(SkipChars(line, Len(DATA_PREFIX)))
       IN (starts_with(line, DATA_PREFIX) /\ ValidJson(data)) =>
            /\ EventHasContent(data) =>
                 sse'.loc.full_text =
                   append_chunk_with_overlap(sse.loc.full_text, EventContent(data)).full_text
            /\ EventReason(data) # "none" => sse'.loc.reason = EventReason(data)]_vars

\* the text s without its line terminators: each newline, and a carriage
\* return that stands right before a newline
RECURSIVE WithoutTerminators(_)
WithoutTerminators(s) ==
  IF s = <<>> THEN <<>>
  ELSE IF Head(s) = "\n" THEN WithoutTerminators(Tail(s))
  ELSE IF Head(s) = "\r" /\ Len(s) >= 2 /\ s[2] = "\n" THEN WithoutTerminators(SkipChars(s, 2))
  ELSE <<Head(s)>> \o WithoutTerminators(Tail(s))

Newlines(s) == {i \in 1..Len(s) : s[i] = "\n"}

\* C30: on a buffer with a newline sse_take_line returns the text before the
\* first newline with one trailing carriage return removed and deletes that
\* text and the newline from the buffer; on a buffer without a newline it
\* returns None and leaves the buffer as it is.  Called until it returns
\* None it has returned the complete lines in order and left the
\* unterminated tail, losing and duplicating no character but terminators.
C30_TakeLine ==
  take.pc \in {"call", "none"} =>
    /\ take.calls > 0 =>
         LET b == take.before
             t == take.last
         IN IF Newlines(b) # {}
            THEN LET p == SetMin(Newlines(b))
                     text == SubSeq(b, 1, p - 1)
                 IN /\ t.some
                    /\ t.line = IF text # <<>> /\ text[Len(text)] = "\r"
                                THEN SubSeq(text, 1, Len(text) - 1) ELSE text
                    /\ take.buffer = SubSeq(b, p + 1, Len(b))
            ELSE ~t.some /\ take.buffer = b
    /\ Concat(take.lines) \o WithoutTerminators(take.buffer) = WithoutTerminators(take.orig)
    /\ Len(take.lines) + Cardinality(Newlines(take.buffer)) = Cardinality(Newlines(take.orig))
    /\ \A i \in 1..Len(take.lines) : Newlines(take.lines[i]) = {}
    /\ take.pc = "none" =>
         /\ Newlines(take.buffer) = {}
         /\ take.buffer = SubSeq(take.orig, Len(take.orig) - Len(take.buffer) + 1, Len(take.orig))

\* two lines were returned, one of them ended by a carriage return and a
\* newline, one keeping a carriage return of its own, and a tail stays
C30_Witness ==
  /\ take.pc = "none"
  /\ Len(take.lines) = 2
  /\ take.lines[1] = <<"\r">>
  /\ take.buffer = <<"a">>
  /\ take.orig = <<"\r", "\r", "\n", "\n", "a">>


\* the complete lines of the text s, without their newlines
RECURSIVE CompleteLines(_)
CompleteLines(s) ==
  IF Newlines(s) = {} THEN <<>>
  ELSE LET p == SetMin(Newlines(s))
       IN <<SubSeq(s, 1, p - 1)>> \o CompleteLines(SkipChars(s, p))

\* a data line whose payload is neither empty, nor the sentinel, nor JSON
BadLine(line) ==
  /\ starts_with(line, DATA_PREFIX)
  /\ LET data == trim(SkipChars(line, Len(DATA_PREFIX)))
     IN data # <<>> /\ data # DONE_SENTINEL /\ ~ValidJson(data)

\* the bytes the step takes from the body, as the buffer holds them
Arrived ==
  sse.loc.sse_buf \o
    from_utf8_lossy(FirstChars(sse.rest, Len(sse.rest) - Len(sse'.rest)))

\* C31: when a data line of a streamed body carries a payload that is not
\* valid JSON the round ends with an error at once, be the line ended by a
\* newline or by the end of the body; the round never ends without error
\* after such a line.
C31_AsStated ==
  [][(sse.pc = "read") =>
       /\ (\E i \in 1..Len(CompleteLines(Arrived)) : BadLine(CompleteLines(Arrived)[i]))
            => sse'.pc = "err"
       /\ (sse.rest = <<>> /\ BadLine(trim(sse.loc.sse_buf))) => sse'.pc = "err"]_vars


\* the rejection a can be recovered from: a 4xx that mentions max_tokens
\* and answers a request sent without the ceiling, or a streaming request
\* the endpoint refuses to stream
RecoverablePattern(a) ==
  \/ MaxTokensRejected(a) /\ a.max_tokens = 0
  \/ StreamRejected(a) /\ a.stream

C33_FinalizeOnce ==
  Running =>
    /\ ctl.finalize_calls = IF ctl.pc = "ok" THEN 1 ELSE 0
    /\ ctl.pc = "ok" =>
         /\ ctl.gate.probe = <<>>
         /\ finalize(ctl.gate, ctl.live) = ctl.gate
         /\ (/\ ctl.live /\ ctl.gate.mode = "Unknown" /\ ctl.full_text # <<>>
             /\ ~action_prefix_state(ctl.full_text).full)
              => ctl.gate.out = <<ctl.full_text>>

\* a live call returned Ok with a transcript that is a proper prefix of the
\* marker: finalize emitted it
C33_Witness ==
  /\ ctl.pc = "ok" /\ ctl.live
  /\ ctl.gate.mode = "Unknown"
  /\ ctl.full_text = TextA
  /\ ctl.gate.out = <<TextA>>


\* the live tokens agree with the transcript as the gate's mode demands
TokensInOrder(c) ==
  /\ c.gate.mode = "Emit" => Concat(c.gate.out) = c.full_text
  /\ c.gate.mode = "Unknown" => c.gate.out = <<>> /\ c.gate.probe = c.full_text
  /\ c.gate.mode = "Suppress" => c.gate.out = <<>>

\* C34 as stated: in every reachable state of a controller call with a live
\* sink the tokens agree with the transcript as the mode demands; hence on a
\* successful return with the gate not Suppressing the concatenated tokens
\* equal the returned transcript.
C34_AsStated ==
  (Running /\ ctl.live) =>
    /\ TokensInOrder(ctl)
    /\ (ctl.pc = "ok" /\ ctl.gate.mode # "Suppress") => Concat(ctl.gate.out) = ctl.full_text

\* C34: the same in every state in which finalize has not run, that is while
\* the call is running or has failed; on a successful return with the gate
\* not Suppressing the concatenated tokens equal the returned transcript,
\* truncation notice included, and with the gate Suppressing nothing was
\* emitted.
C34_TokenOrder ==
  (Running /\ ctl.live) =>
    /\ ctl.pc # "ok" => TokensInOrder(ctl)
    /\ (ctl.pc = "ok" /\ ctl.gate.mode # "Suppress") => Concat(ctl.gate.out) = ctl.full_text
    /\ (ctl.pc = "ok" /\ ctl.gate.mode = "Suppress") => ctl.gate.out = <<>>

\* a live call returned Ok after the last round was capped as well: the
\* tokens make up the transcript with the truncation notice at its end
C34_Witness ==
  /\ ctl.pc = "ok" /\ ctl.live
  /\ ctl.gate.mode = "Emit"
  /\ Len(ctl.gate.out) >= 2
  /\ ends_with(ctl.full_text, TRUNCATION_NOTICE)
  /\ Len(ctl.full_text) > Len(TRUNCATION_NOTICE)


\* C35: once chat_cancel_stream has emitted done(cancelled=true) for the
\* task whose handle it took, no further notification about that task is
\* emitted, whatever the interleaving of the call with the task.
C35_AsStated ==
  \A t \in TaskIds :
    \A i \in 1..Len(r_notes[t]) :
      (r_notes[t][i].kind = "done" /\ r_notes[t][i].cancelled) => i = Len(r_notes[t])


(***************************************************************************)
(* Specification SpecCtlLive: a controller call whose every HTTP call and  *)
(* body read returns, so that a call that can take a step takes one.  The  *)
(* system prompt only decides the first message (1695), so one is used.    *)
(***************************************************************************)
InitCtlLive == InitCtl /\ ctl.system_prompt = <<"s">>

SpecCtlLive == InitCtlLive /\ [][NextCtl]_vars /\ WF_vars(NextCtl)

Returned == ctl.pc \in {"ok", "err"}

\* a step after which the call is still in the same iteration of the round
\* loop consumes the ceiling flag or the stream flag
RetryConsumes ==
  (ctl.pc = "req" /\ ctl'.pc = "req" /\ ctl'.round = ctl.round) =>
    /\ ctl.kind = "openai"
    /\ \/ ~ctl.use_fallback_chunk_limit /\ ctl'.use_fallback_chunk_limit
          /\ ctl'.stream_supported = ctl.stream_supported
       \/ ctl.stream_supported /\ ~ctl'.stream_supported
          /\ ctl'.use_fallback_chunk_limit = ctl.use_fallback_chunk_limit

\* a step that leaves the iteration enters the next one or returns
RoundAdvances ==
  (ctl.pc = "req" /\ ctl'.round # ctl.round) =>
    /\ ctl'.round = ctl.round + 1
    /\ ctl'.round <= MAX_CONTINUATIONS

\* C36: every call of either controller returns, after at most
\* MAX_CONTINUATIONS + 1 iterations of the round loop, and the retry loop
\* inside an iteration of the OpenAI controller does not cycle: each retry
\* consumes the ceiling flag or the stream flag, neither of which is given
\* back within the iteration.
C36_Termination ==
  /\ <>Returned
  /\ [][RetryConsumes /\ RoundAdvances]_vars
  /\ [](Running => ctl.round \in 0..MAX_CONTINUATIONS)

\* a call that returned from the last iteration of the round loop, having
\* retried twice within it
C36_Witness ==
  /\ ctl.pc = "ok" /\ ctl.kind = "openai"
  /\ ctl.round = MAX_CONTINUATIONS
  /\ Len(c_hist.attempts) = 3


\* the tokens of a fresh gate that is pushed the whole text in one call and
\* then finalized
PushedWhole(text) == finalize(push(LiveEmitGate_new, TRUE, text), TRUE).out

\* C37: the concatenation of the tokens a fresh gate emits for a text, all
\* pushes followed by finalize, is the same for every split of the text
\* into push calls, the split into one call included, also when whitespace
\* precedes the marker.
C37_AsStated ==
  g_pc = "finalized" => Concat(g_gate.out) = Concat(PushedWhole(g_input))


\* the locals of the round after a body that arrives as one chunk
DecodedWhole(kind, body, start) ==
  LET a == OnChunk(DecoderInit(start), body)
  IN IF a.err # "" THEN a
     ELSE IF kind = "openai" THEN TrailingOpenAI(a) ELSE TrailingAnthropic(a)

\* the body has been delivered to its end, or up to a line that failed to parse
Delivered ==
  \/ sse.pc = "done"
  \/ sse.pc = "err" /\ sse.loc.err = "stream parse failed"

\* C38: what a streamed body decodes to (transcript, unique text of the
\* round, completion reason, tokens, parse error) is the same for every
\* partition of the body's bytes into network chunks, the partition into one
\* chunk included, also when a chunk ends inside a line or inside a
\* multi-byte UTF-8 character.
C38_AsStated ==
  Delivered =>
    LET w == DecodedWhole(sse.kind, sse.body, sse.start)
    IN Produced(sse.loc) = Produced(w) /\ sse.loc.err = w.err

(***************************************************************************)
(* Specification SpecReplay: the tail of one chat_generate_stream task.    *)
(* run_react emits tokens through LiveStreamSession::emit_token while it   *)
(* runs; when it returns Ok the task replays the response unless the       *)
(* session has emitted (1597-1617), suspending in the sleep after every    *)
(* full fragment, then clears its entry and signals done.  abort() takes   *)
(* effect where the task is suspended: in run_react and in the sleep.      *)
(***************************************************************************)
\* let step_chars = 48usize, scaled
step_chars == 2

\* longest response, and the number of emit_token calls of run_react
MaxResp == 5
MaxLive == 2

ResponseChars == {"a", "b"}

\* what the sink is handed: nothing, or some text
LiveTokens == {<<>>, <<"a">>, <<"a", "b">>}

TokenEvent(token) == [kind |-> "ai_stream_token", token |-> token]

StatusEvent == [kind |-> "ai_stream_status", token |-> <<>>]

DoneEvent == [kind |-> "ai_stream_done", token |-> <<>>]

\* LiveStreamSession::new
LiveStreamSession_new == [emitted_any |-> FALSE]

\* LiveStreamSession::emit_token with the flag it stores and the event the
\* window receives
emit_token_session(session, events, token) ==
  IF token = <<>>
  THEN [session |-> session, events |-> events]
  ELSE [session |-> [session EXCEPT !.emitted_any = TRUE],
        events |-> Append(events, TokenEvent(token))]

\* a plausible slip: the flag is never read back
HasEmittedNever(session) == FALSE

\* LiveStreamSession::has_emitted
has_emitted(session) == session.emitted_any

\* the replay loop from one poll of the task to its next suspension: a full
\* fragment is emitted and the task sleeps, or the characters run out, the
\* partial buffer is emitted if it is not empty, and the loop is left
ReplayLoop(events, rest) ==
  IF Len(rest) >= step_chars
  THEN [events |-> Append(events, TokenEvent(SubSeq(rest, 1, step_chars))),
        rest |-> SubSeq(rest, step_chars + 1, Len(rest)),
        pc |-> "sleeping"]
  ELSE [events |-> IF rest = <<>> THEN events
                   ELSE Append(events, TokenEvent(rest)),
        rest |-> <<>>,
        pc |-> "clearing"]

InitReplay ==
  /\ replay = [pc |-> "run_react", session |-> LiveStreamSession_new,
               aborted |-> FALSE, calls |-> 0, response |-> <<>>,
               rest |-> <<>>, events |-> <<>>, live |-> 0]
  /\ pm = [pc |-> "idle"]
  /\ DecoderIdle
  /\ DedupIdle
  /\ GateIdle
  /\ CtlIdle
  /\ RegInit

ReplayFrame == UNCHANGED <<dvars, gvars, cvars, rvars, svars, pm>>

\* inside run_react: the controller's sink calls emit_token
ReplayLiveToken ==
  /\ replay.pc = "run_react"
  /\ ~replay.aborted
  /\ replay.calls < MaxLive
  /\ \E token \in LiveTokens :
       LET e == emit_token_session(replay.session, replay.events, token)
       IN replay' = [replay EXCEPT !.session = e.session,
                                   !.events = e.events,
                                   !.live = Len(e.events),
                                   !.calls = @ + 1]
  /\ ReplayFrame

\* run_react returns Ok(response): the replay up to its first suspension
ReplayRespond ==
  /\ replay.pc = "run_react"
  /\ ~replay.aborted
  /\ \E response \in SeqsUpTo(ResponseChars, MaxResp) :
       IF has_emitted(replay.session)
       THEN replay' = [replay EXCEPT !.pc = "clearing",
                                     !.response = response]
       ELSE LET l == ReplayLoop(Append(replay.events, StatusEvent), response)
            IN replay' = [replay EXCEPT !.pc = l.pc,
                                        !.response = response,
                                        !.rest = l.rest,
                                        !.events = l.events]
  /\ ReplayFrame

\* the sleep of 15 ms is over: the loop goes on
ReplayWake ==
  /\ replay.pc = "sleeping"
  /\ ~replay.aborted
  /\ LET l == ReplayLoop(replay.events, replay.rest)
     IN replay' = [replay EXCEPT !.pc = l.pc, !.rest = l.rest,
                                 !.events = l.events]
  /\ ReplayFrame

\* JoinHandle::abort from chat_cancel_stream or from a later
\* chat_generate_stream of the same identity
ReplayAbort ==
  /\ replay.pc \in {"run_react", "sleeping", "clearing"}
  /\ ~replay.aborted
  /\ replay' = [replay EXCEPT !.aborted = TRUE]
  /\ ReplayFrame

\* the runtime drops the aborted task where it is suspended
ReplayDrop ==
  /\ replay.pc \in {"run_react", "sleeping"}
  /\ replay.aborted
  /\ replay' = [replay EXCEPT !.pc = "dropped"]
  /\ ReplayFrame

\* clear_stream_task, emit_stream_done(.., false), end of the task
ReplayDone ==
  /\ replay.pc = "clearing"
  /\ replay' = [replay EXCEPT !.pc = "ended",
                              !.events = Append(@, DoneEvent)]
  /\ ReplayFrame

NextReplay ==
  \/ ReplayLiveToken
  \/ ReplayRespond
  \/ ReplayWake
  \/ ReplayAbort
  \/ ReplayDrop
  \/ ReplayDone

SpecReplay == InitReplay /\ [][NextReplay]_vars

RECURSIVE TokensOf(_)
TokensOf(events) ==
  IF events = <<>> THEN <<>>
  ELSE (IF Head(events).kind = "ai_stream_token" THEN <<Head(events).token>>
        ELSE <<>>) \o TokensOf(Tail(events))

\* the tokens the window received while run_react ran, and after it returned
LiveEmitted == TokensOf(SubSeq(replay.events, 1, replay.live))

Replayed == TokensOf(SubSeq(replay.events, replay.live + 1, Len(replay.events)))

\* C39: at the end of a task whose run_react returned a response, when no
\* token was emitted live the tokens sent after the return are fragments of
\* 1..step_chars characters whose concatenation is the response, and when a
\* token was emitted live no token is sent after the return; so the response
\* is replayed exactly when nothing was emitted live.
C39_ReplayExclusive ==
  replay.pc = "ended" =>
    /\ LiveEmitted = <<>> =>
         /\ Concat(Replayed) = replay.response
         /\ \A i \in 1..Len(Replayed) : Len(Replayed[i]) \in 1..step_chars
    /\ LiveEmitted # <<>> => Replayed = <<>>

\* a response of two full fragments and a partial one was replayed
C39_Witness ==
  /\ replay.pc = "ended"
  /\ LiveEmitted = <<>>
  /\ Len(Replayed) = 3
  /\ Len(Replayed[3]) < step_chars

(***************************************************************************)
(* Specification SpecParse: one call of parse_modifications.  The edit     *)
(* content is a sequence of symbols, one per literal of the three regular  *)
(* expressions and one per character class member:                         *)
(*   "R" <replace   "I" <insert   "X" <delete   "L" lines="   "A" at="     *)
(*   "q" the closing quote   ">" itself   "/" for />                       *)
(*   "r" </replace>   "i" </insert>                                        *)
(*   "1" "2" decimal digits, "N" the digit run 4294967296 (2^32)           *)
(*   " " and "\n" white space, "t" any other character                     *)
(* The regex crate's defaults apply: `.` matches every character except    *)
(* "\n", `\s` matches " " and "\n", `*?` is lazy, captures_iter yields the *)
(* leftmost matches from left to right without overlap.                    *)
(***************************************************************************)
\* number of pieces (tags, text, line breaks) an edit content is made of
MaxPieces == 3

EditSymbols ==
  {"R", "I", "X", "L", "A", "q", ">", "/", "r", "i", "1", "2", "N", " ",
   "\n", "t"}

\* \d and \s
DigitClass == {"1", "2", "N"}

SpaceClass == {" ", "\n"}

\* `.` without the s flag
DotClass == EditSymbols \ {"\n"}

\* a plausible slip: `.` as with the s flag, matching line breaks too
DotAll == EditSymbols

\* the value of a digit run that holds "N": more than u32::MAX
Overflowing == 0 - 1

DigitValue(d) == IF d = "1" THEN 1 ELSE 2

RECURSIVE DecimalValue(_)
DecimalValue(ds) ==
  IF \E k \in 1..Len(ds) : ds[k] = "N" THEN Overflowing
  ELSE IF ds = <<>> THEN 0
  ELSE DecimalValue(SubSeq(ds, 1, Len(ds) - 1)) * 10 + DigitValue(ds[Len(ds)])

\* str::parse::<u32>() of a run of digits
parse_u32(ds) ==
  LET v == DecimalValue(ds)
  IN IF v = Overflowing THEN [ok |-> FALSE, val |-> 0]
     ELSE [ok |-> TRUE, val |-> v]

\* the first position from i on whose symbol is outside class (greedy run)
SkipWhile(s, i, class) ==
  IF i > Len(s) THEN i
  ELSE CHOOSE j \in i..(Len(s) + 1) :
         /\ \A k \in i..(j - 1) : s[k] \in class
         /\ j = Len(s) + 1 \/ s[j] \notin class

At(s, i, c) == i <= Len(s) /\ s[i] = c

NoMatch == [ok |-> FALSE, end |-> 0, caps |-> <<>>]

\* (.*?) followed by the closing literal: the lazy run ends at the first
\* closing literal, which the run of `.` must reach
LazyBody(s, from, closing) == SkipWhile(s, from, DotClass \ {closing})

\* <replace\s+lines="(\d+)-(\d+)">(.*?)</replace> anchored at i
replace_regex(s, i) ==
  LET w == SkipWhile(s, i + 1, SpaceClass)
      d1 == SkipWhile(s, w + 1, DigitClass)
      d2 == SkipWhile(s, d1 + 1, DigitClass)
      c == LazyBody(s, d2 + 2, "r")
  IN IF /\ At(s, i, "R") /\ w > i + 1
        /\ At(s, w, "L") /\ d1 > w + 1
        /\ At(s, d1, "-") /\ d2 > d1 + 1
        /\ At(s, d2, "q") /\ At(s, d2 + 1, ">")
        /\ At(s, c, "r")
     THEN [ok |-> TRUE, end |-> c + 1,
           caps |-> <<SubSeq(s, w + 1, d1 - 1), SubSeq(s, d1 + 1, d2 - 1),
                      SubSeq(s, d2 + 2, c - 1)>>]
     ELSE NoMatch

\* <insert\s+at="(\d+)">(.*?)</insert> anchored at i
insert_regex(s, i) ==
  LET w == SkipWhile(s, i + 1, SpaceClass)
      d1 == SkipWhile(s, w + 1, DigitClass)
      c == LazyBody(s, d1 + 2, "i")
  IN IF /\ At(s, i, "I") /\ w > i + 1
        /\ At(s, w, "A") /\ d1 > w + 1
        /\ At(s, d1, "q") /\ At(s, d1 + 1, ">")
        /\ At(s, c, "i")
     THEN [ok |-> TRUE, end |-> c + 1,
           caps |-> <<SubSeq(s, w + 1, d1 - 1), SubSeq(s, d1 + 2, c - 1)>>]
     ELSE NoMatch

\* <delete\s+lines="(\d+)-(\d+)"\s*/> anchored at i
delete_regex(s, i) ==
  LET w == SkipWhile(s, i + 1, SpaceClass)
      d1 == SkipWhile(s, w + 1, DigitClass)
      d2 == SkipWhile(s, d1 + 1, DigitClass)
      e == SkipWhile(s, d2 + 1, SpaceClass)
  IN IF /\ At(s, i, "X") /\ w > i + 1
        /\ At(s, w, "L") /\ d1 > w + 1
        /\ At(s, d1, "-") /\ d2 > d1 + 1
        /\ At(s, d2, "q")
        /\ At(s, e, "/")
     THEN [ok |-> TRUE, end |-> e + 1,
           caps |-> <<SubSeq(s, w + 1, d1 - 1), SubSeq(s, d1 + 1, d2 - 1)>>]
     ELSE NoMatch

RegexAt(re, s, i) ==
  IF re = "replace" THEN replace_regex(s, i)
  ELSE IF re = "insert" THEN insert_regex(s, i)
  ELSE delete_regex(s, i)

\* Regex::captures_iter: the capture groups of the successive matches
RECURSIVE captures_iter(_, _, _)
captures_iter(re, s, pos) ==
  IF pos > Len(s) THEN <<>>
  ELSE LET m == RegexAt(re, s, pos)
       IN IF m.ok THEN <<m.caps>> \o captures_iter(re, s, m.end)
          ELSE captures_iter(re, s, pos + 1)

NoText == <<"None">>

Modification(mod_type, line_start, line_end, modified_text, mod_counter) ==
  [mod_type |-> mod_type, line_start |-> line_start, line_end |-> line_end,
   modified_text |-> modified_text, status |-> "Pending",
   id |-> mod_counter]

\* one of the three loops: a Modification per match, or the first error
RECURSIVE ParseLoop(_, _, _)
ParseLoop(re, caps, acc) ==
  IF caps = <<>> \/ ~acc.ok THEN acc
  ELSE LET cap == Head(caps)
           n == Len(acc.mods)
           a == parse_u32(cap[1])
           b == IF re = "insert" THEN a ELSE parse_u32(cap[2])
           m == IF re = "replace"
                THEN Modification("Modify", a.val, b.val, trim(cap[3]), n)
                ELSE IF re = "insert"
                THEN Modification("Add", a.val, a.val, trim(cap[2]), n)
                ELSE Modification("Delete", a.val, b.val, NoText, n)
       IN IF a.ok /\ b.ok
          THEN ParseLoop(re, Tail(caps), [ok |-> TRUE, mods |-> Append(acc.mods, m)])
          ELSE [ok |-> FALSE, mods |-> <<>>]

\* parse_modifications: Ok(modifications) or Err
parse_modifications(edit_content) ==
  LET r == ParseLoop("replace", captures_iter("replace", edit_content, 1),
                     [ok |-> TRUE, mods |-> <<>>])
      i == ParseLoop("insert", captures_iter("insert", edit_content, 1), r)
  IN ParseLoop("delete", captures_iter("delete", edit_content, 1), i)

\* the pieces edit contents are made of: well-formed tags with the line
\* numbers 1 and 21, a one-line body or the body of the tests (line break,
\* text, line break), plain text and line breaks
Piece(tag, a, b, text) == [tag |-> tag, a |-> a, b |-> b, text |-> text]

LineNumbers == {<<"1">>, <<"2", "1">>}

OneLineBody == <<" ", "t">>

TestBody == <<"\n", "t", "\n">>

ReplaceTag(a, body) ==
  Piece("replace", DecimalValue(a), 2,
        <<"R", " ", "L">> \o a \o <<"-", "2", "q", ">">> \o body \o <<"r">>)

InsertTag(a, body) ==
  Piece("insert", DecimalValue(a), DecimalValue(a),
        <<"I", " ", "A">> \o a \o <<"q", ">">> \o body \o <<"i">>)

DeleteTag(a, gap) ==
  Piece("delete", DecimalValue(a), 2,
        <<"X", " ", "L">> \o a \o <<"-", "2", "q">> \o gap \o <<"/">>)

EditPieces ==
  {ReplaceTag(a, OneLineBody) : a \in LineNumbers}
    \cup {ReplaceTag(<<"1">>, TestBody)}
    \cup {InsertTag(a, OneLineBody) : a \in LineNumbers}
    \cup {InsertTag(<<"1">>, TestBody)}
    \cup {DeleteTag(a, <<" ">>) : a \in LineNumbers}
    \cup {DeleteTag(<<"1">>, <<>>)}
    \cup {Piece("none", 0, 0, <<"t">>), Piece("none", 0, 0, <<"\n">>)}

RECURSIVE PiecesText(_)
PiecesText(ps) ==
  IF ps = <<>> THEN <<>> ELSE Head(ps).text \o PiecesText(Tail(ps))

InitParse ==
  /\ \E ps \in SeqsUpTo(EditPieces, MaxPieces) :
       pm = [pc |-> "call", pieces |-> ps, edit_content |-> PiecesText(ps),
             result |-> [ok |-> TRUE, mods |-> <<>>]]
  /\ replay = [pc |-> "idle"]
  /\ DecoderIdle
  /\ DedupIdle
  /\ GateIdle
  /\ CtlIdle
  /\ RegInit

ParseModifications ==
  /\ pm.pc = "call"
  /\ pm' = [pm EXCEPT !.pc = "returned",
                      !.result = parse_modifications(pm.edit_content)]
  /\ UNCHANGED <<dvars, gvars, cvars, rvars, svars, replay>>

NextParse == ParseModifications

SpecParse == InitParse /\ [][NextParse]_vars

\* what the tags of one kind are expected to give, in document order
RECURSIVE ExpectedOf(_, _)
ExpectedOf(tag, ps) ==
  IF ps = <<>> THEN <<>>
  ELSE (IF Head(ps).tag = tag
        THEN <<[line_start |-> Head(ps).a, line_end |-> Head(ps).b]>>
        ELSE <<>>) \o ExpectedOf(tag, Tail(ps))

RECURSIVE ReturnedOf(_, _)
ReturnedOf(mod_type, mods) ==
  IF mods = <<>> THEN <<>>
  ELSE (IF Head(mods).mod_type = mod_type
        THEN <<[line_start |-> Head(mods).line_start,
                line_end |-> Head(mods).line_end]>>
        ELSE <<>>) \o ReturnedOf(mod_type, Tail(mods))

\* C40: parse_modifications returns Ok with exactly one Modification per
\* well-formed tag of the edit content: the replace tags as Modify with
\* line_start = a and line_end = b, the insert tags as Add with
\* line_start = line_end = n, the delete tags as Delete with the range a-b,
\* also for a tag body that spans several lines as in the tests.
C40_AsStated ==
  pm.pc = "returned" =>
    /\ pm.result.ok
    /\ ReturnedOf("Modify", pm.result.mods) = ExpectedOf("replace", pm.pieces)
    /\ ReturnedOf("Add", pm.result.mods) = ExpectedOf("insert", pm.pieces)
    /\ ReturnedOf("Delete", pm.result.mods) = ExpectedOf("delete", pm.pieces)

====
